---- MODULE Spec2Model ----
(***************************************************************************)
(* A model of the Dell G15 control daemon (src/src/g15_daemon.py):         *)
(* PowerMode, ConfigManager, G15HardwareController and G15DaemonServer.    *)
(*                                                                         *)
(* The controller's methods are written once, as a step machine over a     *)
(* "world" record w = [c, cm, t, now, requests, acpi_call]:                *)
(*   c   the fields of the G15HardwareController object,                   *)
(*   cm  the ConfigManager: config.json, config.json.bak, default_config,  *)
(*   t   the executing thread: its call stack, the ACPI commands it wrote, *)
(*       its return value and response,                                    *)
(*   now the wall clock,                                                   *)
(*   requests  the rate-limit windows of the server,                       *)
(*   acpi_call the answer /proc/acpi/call holds for its next reader.       *)
(* Step(w) executes one statement of the frame on top of the stack.  The   *)
(* threaded specification Spec lets the daemon's threads take such steps in *)
(* any order (the code holds no lock); the sequential specification        *)
(* SpecSeq runs one handler to completion (Run) per action.                *)
(***************************************************************************)
EXTENDS Integers, Sequences, FiniteSets, TLC

VARIABLES
    phase,                \* "init" before G15HardwareController.__init__ ran, then "running"
    current_mode,         \* self.current_mode
    g_mode_active,        \* self.g_mode_active
    manual_mode,          \* self.manual_mode
    current_fan_boosts,   \* self.current_fan_boosts
    manual_fan_control,   \* self.manual_fan_control
    pre_gmode_state,      \* self.pre_gmode_state
    config_file,          \* /etc/g15-daemon/config.json
    backup_file,          \* /etc/g15-daemon/config.json.bak
    threads,              \* the daemon's threads: call stack, ACPI commands written, response
    last,                 \* the handler that completed last: request, response, ACPI commands
    nstarted,             \* handlers started so far
    now,                  \* time.time(), in seconds
    default_config,       \* ConfigManager.default_config
    client_requests,      \* G15DaemonServer.client_requests
    admitted,             \* observer: per address, when validate_request returned True
    last_validate,        \* observer: the last validate_request call and its result
    acpi_call             \* /proc/acpi/call: the answer to the command written last

vars == <<phase, current_mode, g_mode_active, manual_mode, current_fan_boosts,
          manual_fan_control, pre_gmode_state, config_file, backup_file, threads,
          last, nstarted, now, default_config, client_requests, admitted,
          last_validate, acpi_call>>

ctlVars == <<phase, current_mode, g_mode_active, manual_mode, current_fan_boosts,
             manual_fan_control, pre_gmode_state, config_file, backup_file, threads,
             last, nstarted, default_config, acpi_call>>

rateVars == <<now, client_requests, admitted, last_validate>>

-----------------------------------------------------------------------------
(* Python values.  A value carries its type, so that isinstance() and the    *)
(* JSON encoder can tell an int from a bool, a str or None.                  *)

PyInt(n)  == [kind |-> "int", v |-> n]
PyBool(b) == [kind |-> "bool", v |-> b]
PyStr(s)  == [kind |-> "str", v |-> s]
PyNone    == [kind |-> "NoneType", v |-> 0]
PyDict(d) == [kind |-> "dict", v |-> d]
PyList(l) == [kind |-> "list", v |-> l]

\* isinstance(x, int): bool is a subclass of int
IsInstanceInt(x) == x.kind \in {"int", "bool"}
IsInstanceBool(x) == x.kind = "bool"
\* the integer an int or a bool stands for in arithmetic and comparisons
IntOf(x) == IF x.kind = "bool" THEN (IF x.v THEN 1 ELSE 0) ELSE x.v
\* bool(x)
Truthy(x) ==
    CASE x.kind = "bool" -> x.v
      [] x.kind = "int" -> x.v # 0
      [] x.kind = "str" -> x.v # ""
      [] x.kind = "NoneType" -> FALSE
      [] x.kind = "dict" -> DOMAIN x.v # {}
\* d.get(k, default)
Get(d, k, default) == IF k \in DOMAIN d THEN d[k] ELSE default
\* s.startswith(p)
StartsWith(s, p) == Len(s) >= Len(p) /\ SubSeq(s, 1, Len(p)) = p

-----------------------------------------------------------------------------
(* class PowerMode(Enum)                                                     *)

PowerMode == {"QUIET", "BALANCED", "PERFORMANCE", "CUSTOM"}

\* mode.value[0]
ModeLabel(m) ==
    CASE m = "QUIET" -> "Silencioso"
      [] m = "BALANCED" -> "Balanceado"
      [] m = "PERFORMANCE" -> "Performance"
      [] m = "CUSTOM" -> "Personalizado"

\* mode.value[1]
ModeCode(m) ==
    CASE m = "QUIET" -> "0xa3"
      [] m = "BALANCED" -> "0xa0"
      [] m = "PERFORMANCE" -> "0xa1"
      [] m = "CUSTOM" -> "0xa2"

\* {mode.value[0]: mode for mode in PowerMode}
ModeMap == [l \in {ModeLabel(m) : m \in PowerMode} |->
               CHOOSE m \in PowerMode : ModeLabel(m) = l]

FanIds == {1, 2}

-----------------------------------------------------------------------------
(* Hex formatting, f"0x{n:02X}"                                              *)

HexDigit(d) ==
    CASE d = 0 -> "0" [] d = 1 -> "1" [] d = 2 -> "2" [] d = 3 -> "3"
      [] d = 4 -> "4" [] d = 5 -> "5" [] d = 6 -> "6" [] d = 7 -> "7"
      [] d = 8 -> "8" [] d = 9 -> "9" [] d = 10 -> "A" [] d = 11 -> "B"
      [] d = 12 -> "C" [] d = 13 -> "D" [] d = 14 -> "E" [] d = 15 -> "F"

RECURSIVE HexDigits(_)
HexDigits(n) == IF n < 16 THEN HexDigit(n) ELSE HexDigits(n \div 16) \o HexDigit(n % 16)

\* f"0x{n:02X}": at least two characters, upper-case hex digits, the sign counted
Hex02X(n) ==
    "0x" \o (IF n < 0 THEN "-" \o HexDigits(-n)
             ELSE IF n < 16 THEN "0" \o HexDigit(n) ELSE HexDigits(n))

-----------------------------------------------------------------------------
(* Bounds of the model                                                       *)

\* the interpreter's recursion limit, in frames of the modelled call stack
RecursionLimit == 5
\* handlers (requests and hotkey presses) started in one run of the threaded daemon
MaxStarted == 2

-----------------------------------------------------------------------------
(* JSON: json.dump writes a document, json.load reads it back.  A document   *)
(* is a tree of JSON tokens, a different type from the Python values.        *)

RECURSIVE Dumps(_)
Dumps(x) ==
    CASE x.kind = "bool" -> [jt |-> IF x.v THEN "true" ELSE "false"]
      [] x.kind = "int" -> [jt |-> "number", n |-> x.v]
      [] x.kind = "str" -> [jt |-> "string", s |-> x.v]
      [] x.kind = "NoneType" -> [jt |-> "null"]
      [] x.kind = "dict" ->
           [jt |-> "object", members |-> [k \in DOMAIN x.v |-> Dumps(x.v[k])]]
      [] x.kind = "list" ->
           [jt |-> "array", items |-> [i \in DOMAIN x.v |-> Dumps(x.v[i])]]

\* a reader that takes the JSON booleans for the numbers 1 and 0
RECURSIVE LoadsBoolAsInt(_)
LoadsBoolAsInt(j) ==
    CASE j.jt = "true" -> PyInt(1)
      [] j.jt = "false" -> PyInt(0)
      [] j.jt = "number" -> PyInt(j.n)
      [] j.jt = "string" -> PyStr(j.s)
      [] j.jt = "null" -> PyNone
      [] j.jt = "object" ->
           PyDict([k \in DOMAIN j.members |-> LoadsBoolAsInt(j.members[k])])
      [] j.jt = "array" -> PyList([i \in DOMAIN j.items |-> LoadsBoolAsInt(j.items[i])])

RECURSIVE Loads(_)
Loads(j) ==
    CASE j.jt = "true" -> PyBool(TRUE)
      [] j.jt = "false" -> PyBool(FALSE)
      [] j.jt = "number" -> PyInt(j.n)
      [] j.jt = "string" -> PyStr(j.s)
      [] j.jt = "null" -> PyNone
      [] j.jt = "object" -> PyDict([k \in DOMAIN j.members |-> Loads(j.members[k])])
      [] j.jt = "array" -> PyList([i \in DOMAIN j.items |-> Loads(j.items[i])])

\* the states of a file: absent, text that is not JSON, a JSON document
MissingFile == [st |-> "missing"]
GarbageFile == [st |-> "garbage"]
JsonFile(doc) == [st |-> "json", doc |-> doc]
\* a file that is being written: truncated, or holding the first part of its content
PartialFile == [st |-> "partial"]

\* datetime.now().isoformat()
Isoformat(t) == "T" \o ToString(t)

\* p in s, for two strings
Contains(s, p) ==
    \E i \in 1..(Len(s) - Len(p) + 1) : SubSeq(s, i, i + Len(p) - 1) = p

\* d[k] = x on a dict
SetItem(d, k, x) == PyDict([j \in DOMAIN d.v \cup {k} |-> IF j = k THEN x ELSE d.v[j]])

-----------------------------------------------------------------------------
(* class ConfigManager                                                       *)

DefaultConfig ==
    PyDict([power_mode |-> PyStr("Balanceado"),
            g_mode |-> PyBool(FALSE),
            fan_profiles |-> PyDict([cpu_fan_boost |-> PyInt(0), gpu_fan_boost |-> PyInt(0)]),
            auto_apply |-> PyBool(TRUE),
            last_saved |-> PyNone,
            version |-> PyStr("1.0")])

ValidModes == {"Silencioso", "Balanceado", "Performance", "Personalizado"}

\* one boost entry of fan_profiles: isinstance(boost, int) and 0 <= boost <= 100
ValidBoost(b) == IsInstanceInt(b) /\ 0 <= IntOf(b) /\ IntOf(b) <= 100

\* the fan_profiles loop of _validate_config; an operand `in` or [] cannot take raises,
\* and the except clause returns False
ValidFanProfiles(fp) ==
    CASE fp.kind = "dict" ->
           \A fan \in {"cpu_fan_boost", "gpu_fan_boost"} :
               fan \in DOMAIN fp.v => ValidBoost(fp.v[fan])
      [] fp.kind = "str" ->
           \A fan \in {"cpu_fan_boost", "gpu_fan_boost"} : ~Contains(fp.v, fan)
      [] fp.kind = "list" ->
           \A fan \in {"cpu_fan_boost", "gpu_fan_boost"} :
               \A i \in DOMAIN fp.v : fp.v[i] # PyStr(fan)
      [] OTHER -> FALSE

\* a validation that looks at the required fields only
ValidateRequiredFieldsOnly(config) ==
    /\ config.kind = "dict"
    /\ \A field \in {"power_mode", "g_mode", "fan_profiles"} : field \in DOMAIN config.v

\* ConfigManager._validate_config
ValidateConfig(config) ==
    /\ config.kind = "dict"
    /\ \A field \in {"power_mode", "g_mode", "fan_profiles"} : field \in DOMAIN config.v
    /\ config.v["power_mode"].kind = "str"
    /\ config.v["power_mode"].v \in ValidModes
    /\ IsInstanceBool(config.v["g_mode"])
    /\ ValidFanProfiles(config.v["fan_profiles"])

-----------------------------------------------------------------------------
(* The call stack of a thread                                                *)

Top(w) == w.t.stack[Len(w.t.stack)]
SetTop(w, f) == [w EXCEPT !.t.stack[Len(w.t.stack)] = f]
Goto(w, pc) == [w EXCEPT !.t.stack[Len(w.t.stack)].pc = pc]
\* call g, to resume the caller at retpc
Call(w, retpc, g) == [w EXCEPT !.t.stack = Append([w.t.stack EXCEPT ![Len(w.t.stack)].pc = retpc], g)]
\* return x to the caller
Ret(w, x) == [w EXCEPT !.t.stack = SubSeq(w.t.stack, 1, Len(w.t.stack) - 1), !.t.ret = x]

SaveFrame(config, alias) ==
    [fn |-> "save", pc |-> "save_179", config |-> config, alias |-> alias, tmp |-> MissingFile]
LoadFrame == [fn |-> "load", pc |-> "load_146"]

\* a save that opens config.json itself for writing
BeginWriteInPlace(w, f) ==
    SetTop([w EXCEPT !.cm.config_file = PartialFile],
           [f EXCEPT !.tmp = PartialFile, !.pc = "save_193"])

\* tempfile.NamedTemporaryFile(mode='w', dir=self.config_dir, delete=False): a file
\* of the thread's own is created and json.dump starts to write it
BeginWrite(w, f) == SetTop(w, [f EXCEPT !.tmp = PartialFile, !.pc = "save_193"])

\* ConfigManager.save.  f.alias names the caller's object that `config` is: save()
\* stores last_saved into the dict it was handed.
SaveStep(w) ==
    LET f == Top(w) IN
    CASE f.pc = "save_179" ->
           IF ~ValidateConfig(f.config) THEN Ret(w, FALSE)
           ELSE LET stamped == SetItem(f.config, "last_saved", PyStr(Isoformat(w.now)))
                    w2 == IF f.alias = "default_config"
                          THEN [w EXCEPT !.cm.default_config = stamped] ELSE w
                IN  SetTop(w2, [f EXCEPT !.config = stamped, !.pc = "save_185"])
      [] f.pc = "save_185" ->
           IF w.cm.config_file.st = "missing" THEN Goto(w, "save_188")
           ELSE IF w.t.io = "copy_fails" THEN Goto(w, "save_202")
           ELSE Goto([w EXCEPT !.cm.backup_file = PartialFile], "save_186")
      [] f.pc = "save_186" ->
           Goto([w EXCEPT !.cm.backup_file = w.cm.config_file], "save_188")
      [] f.pc = "save_188" ->
           IF w.t.io = "write_fails" THEN Goto(w, "save_202") ELSE BeginWrite(w, f)
      [] f.pc = "save_193" ->
           SetTop(w, [f EXCEPT !.tmp = JsonFile(Dumps(f.config)), !.pc = "save_197"])
      [] f.pc = "save_197" -> Ret([w EXCEPT !.cm.config_file = f.tmp], TRUE)
      [] f.pc = "save_202" -> Ret(w, FALSE)

\* a restore that copies nothing
RestoreNothing(cm) == cm

\* shutil.copy2(self.backup_file, self.config_file)
RestoreFromBackup(cm) == [cm EXCEPT !.config_file = cm.backup_file]

\* ConfigManager.load
LoadStep(w) ==
    LET f == Top(w) IN
    CASE f.pc = "load_146" ->
           IF w.cm.config_file.st = "missing"
           THEN Call(w, "load_149", SaveFrame(w.cm.default_config, "default_config"))
           ELSE Goto(w, "load_151")
      [] f.pc = "load_149" -> Ret(w, w.cm.default_config)
      [] f.pc = "load_151" ->
           (CASE w.cm.config_file.st = "missing" -> Ret(w, w.cm.default_config)
              [] w.cm.config_file.st \in {"garbage", "partial"} -> Goto(w, "load_163")
              [] w.cm.config_file.st = "json" ->
                   LET config == Loads(w.cm.config_file.doc) IN
                   IF ValidateConfig(config) THEN Ret(w, config)
                   ELSE Ret(w, w.cm.default_config))
      [] f.pc = "load_163" ->
           IF w.cm.backup_file.st = "missing" THEN Ret(w, w.cm.default_config)
           ELSE IF w.t.io = "copy_fails" THEN Ret(w, w.cm.default_config)
           ELSE LET w2 == [w EXCEPT !.cm = RestoreFromBackup(w.cm),
                                    !.t.log = Append(w.t.log, "restore from backup")] IN
                IF Len(w.t.stack) >= RecursionLimit
                THEN Ret(w2, w.cm.default_config)
                ELSE Call(w2, "load_167", LoadFrame)
      [] f.pc = "load_167" -> Ret(w, w.t.ret)

-----------------------------------------------------------------------------
(* class G15HardwareController                                               *)

NoSnapshot == [kind |-> "NoneType"]
Snapshot(mode, fan_boosts, manual_control) ==
    [kind |-> "dict", mode |-> mode, fan_boosts |-> fan_boosts,
     manual_control |-> manual_control]

\* args padded with "0x00" up to four
PadArgs(args) == args \o [i \in 1..(4 - Len(args)) |-> "0x00"]

\* G15HardwareController._acpi_call_real: the command is written to /proc/acpi/call
\* unless the code or an argument does not start with 0x
AcpiCallReal(w, wmi_code, args) ==
    IF ~StartsWith(wmi_code, "0x") \/ \E i \in 1..Len(args) : ~StartsWith(args[i], "0x")
    THEN w
    ELSE [w EXCEPT !.t.calls = Append(w.t.calls, [code |-> wmi_code, args |-> PadArgs(args)])]

\* s.strip(chars), for a string s and a string of single characters
RECURSIVE LStrip(_, _)
LStrip(s, chars) ==
    IF s # "" /\ Contains(chars, SubSeq(s, 1, 1)) THEN LStrip(SubSeq(s, 2, Len(s)), chars) ELSE s
RECURSIVE RStrip(_, _)
RStrip(s, chars) ==
    IF s # "" /\ Contains(chars, SubSeq(s, Len(s), Len(s)))
    THEN RStrip(SubSeq(s, 1, Len(s) - 1), chars) ELSE s
Strip(s, chars) == RStrip(LStrip(s, chars), chars)

\* s.split(",")[0]
RECURSIVE FirstField(_)
FirstField(s) ==
    IF s = "" \/ SubSeq(s, 1, 1) = "," THEN ""
    ELSE SubSeq(s, 1, 1) \o FirstField(SubSeq(s, 2, Len(s)))

\* the value of one hex digit, -1 for any other character
HexValue(ch) ==
    CASE ch = "0" -> 0 [] ch = "1" -> 1 [] ch = "2" -> 2 [] ch = "3" -> 3 [] ch = "4" -> 4
      [] ch = "5" -> 5 [] ch = "6" -> 6 [] ch = "7" -> 7 [] ch = "8" -> 8 [] ch = "9" -> 9
      [] ch \in {"a", "A"} -> 10 [] ch \in {"b", "B"} -> 11 [] ch \in {"c", "C"} -> 12
      [] ch \in {"d", "D"} -> 13 [] ch \in {"e", "E"} -> 14 [] ch \in {"f", "F"} -> 15
      [] OTHER -> -1

\* the digits of s read in base 16 on top of acc; -1 when s is no run of hex digits
RECURSIVE HexRun(_, _)
HexRun(s, acc) ==
    IF s = "" THEN acc
    ELSE IF HexValue(SubSeq(s, 1, 1)) < 0 THEN -1
    ELSE HexRun(SubSeq(s, 2, Len(s)), 16 * acc + HexValue(SubSeq(s, 1, 1)))

\* int(s, 16) for an unsigned literal with or without the 0x prefix; -1 stands for
\* the ValueError
IntBase16(s) ==
    LET digits == IF StartsWith(s, "0x") \/ StartsWith(s, "0X") THEN SubSeq(s, 3, Len(s)) ELSE s
    IN  IF digits = "" THEN -1 ELSE HexRun(digits, 0)

\* what /proc/acpi/call does with one command: it cannot be opened for writing, the
\* command is written and the answer cannot be read, or the answer is `text`
AcpiAnswers ==
    {[st |-> "write_fails", text |-> ""], [st |-> "read_fails", text |-> ""]}
    \cup {[st |-> "ok", text |-> t] :
              t \in {"0x0", "0x37", "0xff", "0x2ee0", "", "{0x37, 0x00}", "error"}}

\* the try block of _acpi_call_real: the result it returns for an answer
AcpiResult(acpi) ==
    IF acpi.st # "ok" THEN "0x0"
    ELSE LET stripped == Strip(acpi.text, " ")
             result == IF StartsWith(stripped, "{")
                       THEN Strip(FirstField(Strip(stripped, "{}")), " ")
                       ELSE stripped
         IN  IF result = "" THEN "0x0" ELSE result

\* _acpi_call_real for a read: the command is recorded once it is written
AcpiRead(w, acpi, wmi_code, args) ==
    IF acpi.st = "write_fails" THEN w ELSE AcpiCallReal(w, wmi_code, args)

AcrFrame(wmi_code, args, acpi) ==
    [fn |-> "_acpi_call_real", pc |-> "acr_421", wmi_code |-> wmi_code, args |-> args,
     acpi |-> acpi]

\* what a read of /proc/acpi/call returns before any command was written
NoAnswer == [st |-> "ok", text |-> ""]

\* G15HardwareController._acpi_call_real, called with a code and arguments of any form.
\* f.acpi is what the firmware answers to this command: the write stores the answer in
\* /proc/acpi/call, and the read that follows returns what the file then holds
AcpiCallRealStep(w) ==
    LET f == Top(w) IN
    CASE f.pc = "acr_421" ->
           IF ~StartsWith(f.wmi_code, "0x")
              \/ \E i \in 1..Len(f.args) : ~StartsWith(f.args[i], "0x")
           THEN Ret(w, "0x0")
           ELSE Goto(w, "acr_437")
      [] f.pc = "acr_437" ->
           IF f.acpi.st = "write_fails" THEN Ret(w, "0x0")
           ELSE Goto([AcpiCallReal(w, f.wmi_code, f.args) EXCEPT !.acpi_call = f.acpi],
                     "acr_440")
      [] f.pc = "acr_440" ->
           IF f.acpi.st = "read_fails" THEN Ret(w, "0x0")
           ELSE Ret(w, AcpiResult([st |-> "ok", text |-> w.acpi_call.text]))

SpmFrame(mode, save_config) ==
    [fn |-> "set_power_mode", pc |-> "spm_530", mode |-> mode, save_config |-> save_config]
SfbFrame(fan_id, percentage, save_config, is_manual) ==
    [fn |-> "set_fan_boost", pc |-> "sfb_545", fan_id |-> fan_id, percentage |-> percentage,
     save_config |-> save_config, is_manual |-> is_manual]
EgFrame(save_config) == [fn |-> "enable_g_mode", pc |-> "eg_571", save_config |-> save_config]
DgFrame(save_config) ==
    [fn |-> "disable_g_mode", pc |-> "dg_591", save_config |-> save_config,
     mode |-> "BALANCED", fan_boosts |-> <<0, 0>>, manual_control |-> <<FALSE, FALSE>>,
     fan |-> 1]
ToggleFrame == [fn |-> "toggle_g_mode", pc |-> "tg_623"]
SccFrame == [fn |-> "_save_current_config", pc |-> "scc_386"]

\* the `if save_config: self._save_current_config()` tail of the four mutators
SaveTail(w, f, retpc) ==
    IF f.save_config THEN Call(w, retpc, SccFrame) ELSE Ret(w, TRUE)

\* an exception leaves every frame up to the nearest try that catches it: the try of
\* process_request answers Internal server error, the except clause of handle_client
\* logs and goes on to close the socket, _on_gmode_key_pressed and
\* _load_and_apply_config log and return
Raise(w) ==
    LET st == w.t.stack
        catchers == {i \in 1..Len(st) : st[i].fn \in {"process_request", "handle_client"}}
    IN  IF catchers = {} THEN [w EXCEPT !.t.stack = <<>>]
        ELSE LET i == CHOOSE j \in catchers : \A k \in catchers : k <= j IN
             IF st[i].fn = "process_request"
             THEN [w EXCEPT !.t.stack = SubSeq(st, 1, i - 1),
                            !.t.resp = [status |-> "error",
                                        message |-> "Internal server error"]]
             ELSE [w EXCEPT !.t.stack = <<[st[i] EXCEPT !.pc = "hc_831"]>>]

\* a _save_current_config that lets a failed save end the operation with an exception
SaveCurrentConfigRaising(w) ==
    LET f == Top(w) IN
    CASE f.pc = "scc_386" ->
           LET config ==
                 PyDict([power_mode |-> PyStr(ModeLabel(w.c.current_mode)),
                         g_mode |-> PyBool(w.c.g_mode_active),
                         fan_profiles |->
                             PyDict([cpu_fan_boost |-> PyInt(w.c.current_fan_boosts[1]),
                                     gpu_fan_boost |-> PyInt(w.c.current_fan_boosts[2]),
                                     cpu_manual |-> PyBool(w.c.manual_fan_control[1]),
                                     gpu_manual |-> PyBool(w.c.manual_fan_control[2])]),
                         auto_apply |-> PyBool(TRUE),
                         version |-> PyStr("1.0")])
           IN  Call(w, "scc_399", SaveFrame(config, "local"))
      [] f.pc = "scc_399" -> IF w.t.ret = FALSE THEN Raise(w) ELSE Ret(w, TRUE)

\* a _save_current_config that writes back the auto_apply value of the config file
SaveCurrentConfigKeepingAutoApply(w) ==
    LET f == Top(w) IN
    CASE f.pc = "scc_386" ->
           LET stored == IF w.cm.config_file.st = "json"
                         THEN Loads(w.cm.config_file.doc)
                         ELSE w.cm.default_config
               config ==
                 PyDict([power_mode |-> PyStr(ModeLabel(w.c.current_mode)),
                         g_mode |-> PyBool(w.c.g_mode_active),
                         fan_profiles |->
                             PyDict([cpu_fan_boost |-> PyInt(w.c.current_fan_boosts[1]),
                                     gpu_fan_boost |-> PyInt(w.c.current_fan_boosts[2]),
                                     cpu_manual |-> PyBool(w.c.manual_fan_control[1]),
                                     gpu_manual |-> PyBool(w.c.manual_fan_control[2])]),
                         auto_apply |-> Get(stored.v, "auto_apply", PyBool(TRUE)),
                         version |-> PyStr("1.0")])
           IN  Call(w, "scc_399", SaveFrame(config, "local"))
      [] f.pc = "scc_399" -> Ret(w, TRUE)

\* G15HardwareController._save_current_config
SaveCurrentConfigStep(w) ==
    LET f == Top(w) IN
    CASE f.pc = "scc_386" ->
           LET config ==
                 PyDict([power_mode |-> PyStr(ModeLabel(w.c.current_mode)),
                         g_mode |-> PyBool(w.c.g_mode_active),
                         fan_profiles |->
                             PyDict([cpu_fan_boost |-> PyInt(w.c.current_fan_boosts[1]),
                                     gpu_fan_boost |-> PyInt(w.c.current_fan_boosts[2]),
                                     cpu_manual |-> PyBool(w.c.manual_fan_control[1]),
                                     gpu_manual |-> PyBool(w.c.manual_fan_control[2])]),
                         auto_apply |-> PyBool(TRUE),
                         version |-> PyStr("1.0")])
           IN  Call(w, "scc_399", SaveFrame(config, "local"))
      [] f.pc = "scc_399" -> Ret(w, TRUE)

\* a set_power_mode that does nothing to the hardware and the boosts when the mode
\* asked for is the current one
SetPowerModeSkippingSame(w) ==
    LET f == Top(w) IN
    CASE f.pc = "spm_530" ->
           IF f.mode \notin PowerMode THEN Ret(w, FALSE)
           ELSE IF f.mode = w.c.current_mode THEN Goto(w, "spm_539")
           ELSE Goto([w EXCEPT !.c.current_mode = f.mode,
                               !.c.manual_mode = (f.mode = "CUSTOM")],
                     IF f.mode = "CUSTOM" THEN "spm_539" ELSE "spm_535")
      [] f.pc = "spm_535" ->
           Goto(AcpiCallReal(w, "0x15", <<"0x01", ModeCode(f.mode)>>), "spm_536")
      [] f.pc = "spm_536" ->
           Goto([w EXCEPT !.c.current_fan_boosts = <<0, 0>>], "spm_537")
      [] f.pc = "spm_537" ->
           Goto([w EXCEPT !.c.manual_fan_control = <<FALSE, FALSE>>], "spm_539")
      [] f.pc = "spm_539" -> SaveTail(w, f, "spm_542")
      [] f.pc = "spm_542" -> Ret(w, TRUE)

\* a set_power_mode that treats Custom as every other mode: it writes the mode byte
\* and resets the fans
SetPowerModeWritingCustom(w) ==
    LET f == Top(w) IN
    CASE f.pc = "spm_530" ->
           IF f.mode \notin PowerMode THEN Ret(w, FALSE)
           ELSE Goto([w EXCEPT !.c.current_mode = f.mode,
                               !.c.manual_mode = (f.mode = "CUSTOM")], "spm_535")
      [] f.pc = "spm_535" ->
           Goto(AcpiCallReal(w, "0x15", <<"0x01", ModeCode(f.mode)>>), "spm_536")
      [] f.pc = "spm_536" ->
           Goto([w EXCEPT !.c.current_fan_boosts = <<0, 0>>], "spm_537")
      [] f.pc = "spm_537" ->
           Goto([w EXCEPT !.c.manual_fan_control = <<FALSE, FALSE>>], "spm_539")
      [] f.pc = "spm_539" -> SaveTail(w, f, "spm_542")
      [] f.pc = "spm_542" -> Ret(w, TRUE)

\* G15HardwareController.set_power_mode
SetPowerModeStep(w) ==
    LET f == Top(w) IN
    CASE f.pc = "spm_530" ->
           IF f.mode \notin PowerMode THEN Ret(w, FALSE)
           ELSE Goto([w EXCEPT !.c.current_mode = f.mode,
                               !.c.manual_mode = (f.mode = "CUSTOM")],
                     IF f.mode = "CUSTOM" THEN "spm_539" ELSE "spm_535")
      [] f.pc = "spm_535" ->
           Goto(AcpiCallReal(w, "0x15", <<"0x01", ModeCode(f.mode)>>), "spm_536")
      [] f.pc = "spm_536" ->
           Goto([w EXCEPT !.c.current_fan_boosts = <<0, 0>>], "spm_537")
      [] f.pc = "spm_537" ->
           Goto([w EXCEPT !.c.manual_fan_control = <<FALSE, FALSE>>], "spm_539")
      [] f.pc = "spm_539" -> SaveTail(w, f, "spm_542")
      [] f.pc = "spm_542" -> Ret(w, TRUE)

\* a percentage guard that checks the type and not the range
ValidPercentageAnyInt(percentage) == IsInstanceInt(percentage)

\* the two guards of set_fan_boost
ValidFanId(fan_id) == IsInstanceInt(fan_id) /\ IntOf(fan_id) \in {1, 2}
ValidPercentage(percentage) ==
    IsInstanceInt(percentage) /\ 0 <= IntOf(percentage) /\ IntOf(percentage) <= 100

\* the sensor id of a fan, f"0x{0x32 + fan_id - 1:02X}"
SensorId(fan_id) == Hex02X(50 + fan_id - 1)

\* f"0x{n:02d}" for n >= 0: at least two decimal digits
RECURSIVE DecDigits(_)
DecDigits(n) == IF n < 10 THEN HexDigit(n) ELSE DecDigits(n \div 10) \o HexDigit(n % 10)
Decimal02(n) == "0x" \o (IF n < 10 THEN "0" \o HexDigit(n) ELSE DecDigits(n))

\* a set_fan_boost that writes the percentage in decimal
SetFanBoostDecimal(w) ==
    LET f == Top(w) IN
    CASE f.pc = "sfb_545" ->
           IF ~ValidFanId(f.fan_id) THEN Ret(w, FALSE)
           ELSE IF ~ValidPercentage(f.percentage) THEN Ret(w, FALSE)
           ELSE Goto(AcpiCallReal(w, "0x15", <<"0x02", SensorId(IntOf(f.fan_id)),
                                              Decimal02(IntOf(f.percentage))>>), "sfb_559")
      [] f.pc = "sfb_559" ->
           Goto([w EXCEPT !.c.current_fan_boosts[IntOf(f.fan_id)] = IntOf(f.percentage)],
                "sfb_560")
      [] f.pc = "sfb_560" ->
           Goto(IF f.is_manual
                THEN [w EXCEPT !.c.manual_fan_control[IntOf(f.fan_id)] = (IntOf(f.percentage) > 0)]
                ELSE w, "sfb_563")
      [] f.pc = "sfb_563" -> SaveTail(w, f, "sfb_566")
      [] f.pc = "sfb_566" -> Ret(w, TRUE)

\* G15HardwareController.set_fan_boost
SetFanBoostStep(w) ==
    LET f == Top(w) IN
    CASE f.pc = "sfb_545" ->
           IF ~ValidFanId(f.fan_id) THEN Ret(w, FALSE)
           ELSE IF ~ValidPercentage(f.percentage) THEN Ret(w, FALSE)
           ELSE Goto(AcpiCallReal(w, "0x15", <<"0x02", SensorId(IntOf(f.fan_id)),
                                              Hex02X(IntOf(f.percentage))>>), "sfb_559")
      [] f.pc = "sfb_559" ->
           Goto([w EXCEPT !.c.current_fan_boosts[IntOf(f.fan_id)] = IntOf(f.percentage)],
                "sfb_560")
      [] f.pc = "sfb_560" ->
           Goto(IF f.is_manual
                THEN [w EXCEPT !.c.manual_fan_control[IntOf(f.fan_id)] = (IntOf(f.percentage) > 0)]
                ELSE w, "sfb_563")
      [] f.pc = "sfb_563" -> SaveTail(w, f, "sfb_566")
      [] f.pc = "sfb_566" -> Ret(w, TRUE)

GfbFrame(fan_id) == [fn |-> "get_fan_boost", pc |-> "gfb_510", fan_id |-> fan_id]

\* G15HardwareController.get_fan_boost
GetFanBoostStep(w) ==
    LET f == Top(w) IN
    CASE f.pc = "gfb_510" ->
           IF ~ValidFanId(f.fan_id) THEN Ret(w, 0)
           ELSE Ret(w, w.c.current_fan_boosts[IntOf(f.fan_id)])

\* the frames of the sensor reads carry what the hardware answers: hwmon is None when
\* no hwmon sensor was detected, else what _read_hwmon_sensor returns; acpi is the
\* answer of /proc/acpi/call
GctFrame(hwmon, acpi) == [fn |-> "get_cpu_temp", pc |-> "gct_453", hwmon |-> hwmon, acpi |-> acpi]
GgtFrame(hwmon, acpi) == [fn |-> "get_gpu_temp", pc |-> "ggt_471", hwmon |-> hwmon, acpi |-> acpi]
GfrFrame(fan_id, hwmon, acpi) ==
    [fn |-> "get_fan_rpm", pc |-> "gfr_489", fan_id |-> fan_id, hwmon |-> hwmon, acpi |-> acpi]

\* a detected hwmon file whose read fails
HwmonMiss == [kind |-> "miss", v |-> 0]

\* G15HardwareController._read_hwmon_sensor on a detected file: the number in the
\* file, and 0 from the except clause when the read fails
ReadHwmonSensor(hwmon) == IF hwmon.kind = "int" THEN hwmon.v ELSE 0

\* the hwmon branch of a temperature read: the temperature it returns, -1 for none
HwmonCelsius(hwmon) ==
    IF hwmon.kind = "int" /\ hwmon.v > 0 /\ (hwmon.v \div 1000) \in 0..120
    THEN hwmon.v \div 1000 ELSE -1

\* an ACPI branch that returns int(result, 16) without the range check
AcpiValueUnchecked(acpi, limit, default) == IntBase16(AcpiResult(acpi))

\* the ACPI branch of a read: int(result, 16) if it is in 0..limit, else the default
AcpiValue(acpi, limit, default) ==
    LET n == IntBase16(AcpiResult(acpi)) IN IF n \in 0..limit THEN n ELSE default

\* G15HardwareController.get_cpu_temp
GetCpuTempStep(w) ==
    LET f == Top(w) IN
    CASE f.pc = "gct_453" ->
           IF HwmonCelsius(f.hwmon) >= 0 THEN Ret(w, HwmonCelsius(f.hwmon))
           ELSE Goto(w, "gct_460")
      [] f.pc = "gct_460" ->
           Ret(AcpiRead(w, f.acpi, "0x14", <<"0x04", "0x01">>), AcpiValue(f.acpi, 120, 45))

\* G15HardwareController.get_gpu_temp
GetGpuTempStep(w) ==
    LET f == Top(w) IN
    CASE f.pc = "ggt_471" ->
           IF HwmonCelsius(f.hwmon) >= 0 THEN Ret(w, HwmonCelsius(f.hwmon))
           ELSE Goto(w, "ggt_478")
      [] f.pc = "ggt_478" ->
           Ret(AcpiRead(w, f.acpi, "0x14", <<"0x04", "0x02">>), AcpiValue(f.acpi, 120, 50))

\* G15HardwareController.get_fan_rpm
GetFanRpmStep(w) ==
    LET f == Top(w) IN
    CASE f.pc = "gfr_489" ->
           IF ~ValidFanId(f.fan_id) THEN Ret(w, 0)
           ELSE IF f.hwmon # PyNone /\ ReadHwmonSensor(f.hwmon) \in 0..10000
           THEN Ret(w, ReadHwmonSensor(f.hwmon))
           ELSE Goto(w, "gfr_498")
      [] f.pc = "gfr_498" ->
           Ret(AcpiRead(w, f.acpi, "0x14", <<"0x05", SensorId(IntOf(f.fan_id))>>),
               AcpiValue(f.acpi, 10000, IF IntOf(f.fan_id) = 1 THEN 2500 ELSE 2300))

\* G15HardwareController.enable_g_mode
EnableGModeStep(w) ==
    LET f == Top(w) IN
    CASE f.pc = "eg_571" -> Goto(w, IF ~w.c.g_mode_active THEN "eg_572" ELSE "eg_578")
      [] f.pc = "eg_572" ->
           Goto([w EXCEPT !.c.pre_gmode_state =
                     Snapshot(w.c.current_mode, w.c.current_fan_boosts, w.c.manual_fan_control)],
                "eg_578")
      [] f.pc = "eg_578" -> Goto([w EXCEPT !.c.g_mode_active = TRUE], "eg_580")
      [] f.pc = "eg_580" -> Goto(AcpiCallReal(w, "0x25", <<"0x01", "0x01">>), "eg_582")
      [] f.pc = "eg_582" -> Goto(AcpiCallReal(w, "0x15", <<"0x01", "0xab">>), "eg_584")
      [] f.pc = "eg_584" -> SaveTail(w, f, "eg_587")
      [] f.pc = "eg_587" -> Ret(w, TRUE)

\* a disable_g_mode that replays the snapshot without writing the neutral mode first
DisableGModeWithoutNeutral(w) ==
    LET f == Top(w) IN
    CASE f.pc = "dg_591" -> Goto([w EXCEPT !.c.g_mode_active = FALSE], "dg_593")
      [] f.pc = "dg_593" -> Goto(AcpiCallReal(w, "0x25", <<"0x01", "0x00">>), "dg_596")
      [] f.pc = "dg_596" ->
           Goto(w, IF w.c.pre_gmode_state.kind = "dict" THEN "dg_597" ELSE "dg_615")
      [] f.pc = "dg_597" ->
           IF w.c.pre_gmode_state.kind # "dict" THEN Raise(w)
           ELSE SetTop(w, [f EXCEPT !.mode = w.c.pre_gmode_state.mode,
                                    !.fan_boosts = w.c.pre_gmode_state.fan_boosts,
                                    !.manual_control = w.c.pre_gmode_state.manual_control,
                                    !.pc = "dg_601"])
      [] f.pc = "dg_601" -> Goto(w, "dg_604")
      [] f.pc = "dg_604" ->
           Call(w, IF f.mode = "CUSTOM" THEN "dg_607" ELSE "dg_613", SpmFrame(f.mode, FALSE))
      [] f.pc = "dg_607" ->
           IF f.fan > 2 THEN Goto(w, "dg_613")
           ELSE IF f.manual_control[f.fan]
           THEN Call(SetTop(w, [f EXCEPT !.fan = f.fan + 1]), "dg_607",
                     SfbFrame(PyInt(f.fan), PyInt(f.fan_boosts[f.fan]), FALSE, TRUE))
           ELSE SetTop(w, [f EXCEPT !.fan = f.fan + 1])
      [] f.pc = "dg_613" -> Goto([w EXCEPT !.c.pre_gmode_state = NoSnapshot], "dg_617")
      [] f.pc = "dg_615" ->
           Goto(AcpiCallReal(w, "0x15", <<"0x01", ModeCode(w.c.current_mode)>>), "dg_617")
      [] f.pc = "dg_617" -> SaveTail(w, f, "dg_620")
      [] f.pc = "dg_620" -> Ret(w, TRUE)

\* a disable_g_mode whose replay of the snapshot lets set_power_mode and set_fan_boost save
DisableGModeSavingReplay(w) ==
    LET f == Top(w) IN
    CASE f.pc = "dg_591" -> Goto([w EXCEPT !.c.g_mode_active = FALSE], "dg_593")
      [] f.pc = "dg_593" -> Goto(AcpiCallReal(w, "0x25", <<"0x01", "0x00">>), "dg_596")
      [] f.pc = "dg_596" ->
           Goto(w, IF w.c.pre_gmode_state.kind = "dict" THEN "dg_597" ELSE "dg_615")
      [] f.pc = "dg_597" ->
           IF w.c.pre_gmode_state.kind # "dict" THEN Raise(w)
           ELSE SetTop(w, [f EXCEPT !.mode = w.c.pre_gmode_state.mode,
                                    !.fan_boosts = w.c.pre_gmode_state.fan_boosts,
                                    !.manual_control = w.c.pre_gmode_state.manual_control,
                                    !.pc = "dg_601"])
      [] f.pc = "dg_601" ->
           Goto(AcpiCallReal(w, "0x15", <<"0x01", ModeCode("BALANCED")>>), "dg_604")
      [] f.pc = "dg_604" ->
           Call(w, IF f.mode = "CUSTOM" THEN "dg_607" ELSE "dg_613", SpmFrame(f.mode, TRUE))
      [] f.pc = "dg_607" ->
           IF f.fan > 2 THEN Goto(w, "dg_613")
           ELSE IF f.manual_control[f.fan]
           THEN Call(SetTop(w, [f EXCEPT !.fan = f.fan + 1]), "dg_607",
                     SfbFrame(PyInt(f.fan), PyInt(f.fan_boosts[f.fan]), TRUE, TRUE))
           ELSE SetTop(w, [f EXCEPT !.fan = f.fan + 1])
      [] f.pc = "dg_613" -> Goto([w EXCEPT !.c.pre_gmode_state = NoSnapshot], "dg_617")
      [] f.pc = "dg_615" ->
           Goto(AcpiCallReal(w, "0x15", <<"0x01", ModeCode(w.c.current_mode)>>), "dg_617")
      [] f.pc = "dg_617" -> SaveTail(w, f, "dg_620")
      [] f.pc = "dg_620" -> Ret(w, TRUE)

\* G15HardwareController.disable_g_mode
DisableGModeStep(w) ==
    LET f == Top(w) IN
    CASE f.pc = "dg_591" -> Goto([w EXCEPT !.c.g_mode_active = FALSE], "dg_593")
      [] f.pc = "dg_593" -> Goto(AcpiCallReal(w, "0x25", <<"0x01", "0x00">>), "dg_596")
      [] f.pc = "dg_596" ->
           Goto(w, IF w.c.pre_gmode_state.kind = "dict" THEN "dg_597" ELSE "dg_615")
      [] f.pc = "dg_597" ->
           IF w.c.pre_gmode_state.kind # "dict" THEN Raise(w)
           ELSE SetTop(w, [f EXCEPT !.mode = w.c.pre_gmode_state.mode,
                                    !.fan_boosts = w.c.pre_gmode_state.fan_boosts,
                                    !.manual_control = w.c.pre_gmode_state.manual_control,
                                    !.pc = "dg_601"])
      [] f.pc = "dg_601" ->
           Goto(AcpiCallReal(w, "0x15", <<"0x01", ModeCode("BALANCED")>>), "dg_604")
      [] f.pc = "dg_604" ->
           Call(w, IF f.mode = "CUSTOM" THEN "dg_607" ELSE "dg_613", SpmFrame(f.mode, FALSE))
      [] f.pc = "dg_607" ->
           IF f.fan > 2 THEN Goto(w, "dg_613")
           ELSE IF f.manual_control[f.fan]
           THEN Call(SetTop(w, [f EXCEPT !.fan = f.fan + 1]), "dg_607",
                     SfbFrame(PyInt(f.fan), PyInt(f.fan_boosts[f.fan]), FALSE, TRUE))
           ELSE SetTop(w, [f EXCEPT !.fan = f.fan + 1])
      [] f.pc = "dg_613" -> Goto([w EXCEPT !.c.pre_gmode_state = NoSnapshot], "dg_617")
      [] f.pc = "dg_615" ->
           Goto(AcpiCallReal(w, "0x15", <<"0x01", ModeCode(w.c.current_mode)>>), "dg_617")
      [] f.pc = "dg_617" -> SaveTail(w, f, "dg_620")
      [] f.pc = "dg_620" -> Ret(w, TRUE)

\* G15HardwareController.toggle_g_mode
ToggleGModeStep(w) ==
    LET f == Top(w) IN
    CASE f.pc = "tg_623" ->
           Call(w, "tg_626", IF w.c.g_mode_active THEN DgFrame(TRUE) ELSE EgFrame(TRUE))
      [] f.pc = "tg_626" -> Ret(w, w.t.ret)

LacFrame == [fn |-> "_load_and_apply_config", pc |-> "lac_350", config |-> PyNone, fan |-> 1]

\* "cpu" if fan_id == 1 else "gpu"
FanKey(fan_id) == IF fan_id = 1 THEN "cpu_fan_boost" ELSE "gpu_fan_boost"
ManualKey(fan_id) == IF fan_id = 1 THEN "cpu_manual" ELSE "gpu_manual"

\* G15HardwareController._load_and_apply_config
LoadAndApplyConfigStep(w) ==
    LET f == Top(w) IN
    CASE f.pc = "lac_350" -> Call(w, "lac_352", LoadFrame)
      [] f.pc = "lac_352" ->
           LET config == w.t.ret
               mode_name == Get(config.v, "power_mode", PyStr("Balanceado"))
               w2 == SetTop(w, [f EXCEPT !.config = config])
           IN  IF ~Truthy(Get(config.v, "auto_apply", PyBool(TRUE))) THEN Ret(w, TRUE)
               ELSE IF mode_name.kind = "str" /\ mode_name.v \in DOMAIN ModeMap
               THEN Call(w2, "lac_364", SpmFrame(ModeMap[mode_name.v], FALSE))
               ELSE Goto(w2, "lac_364")
      [] f.pc = "lac_364" ->
           IF Truthy(Get(f.config.v, "g_mode", PyBool(FALSE)))
           THEN Call(w, "lac_368", EgFrame(FALSE))
           ELSE Goto(w, "lac_368")
      [] f.pc = "lac_368" ->
           IF Get(f.config.v, "power_mode", PyStr("Balanceado")) # PyStr("Personalizado")
           THEN Ret(w, TRUE)
           ELSE IF Get(f.config.v, "fan_profiles", PyDict(<<>>)).kind # "dict" THEN Raise(w)
           ELSE Goto(w, "lac_370")
      [] f.pc = "lac_370" ->
           LET fan_profiles == Get(f.config.v, "fan_profiles", PyDict(<<>>)).v
               next == SetTop(w, [f EXCEPT !.fan = f.fan + 1])
           IN  IF f.fan > 2 THEN Ret(w, TRUE)
               ELSE IF Truthy(Get(fan_profiles, ManualKey(f.fan), PyBool(FALSE)))
               THEN Call([next EXCEPT !.c.manual_fan_control[f.fan] = TRUE], "lac_370",
                         SfbFrame(PyInt(f.fan), Get(fan_profiles, FanKey(f.fan), PyInt(0)),
                                  FALSE, TRUE))
               ELSE next

-----------------------------------------------------------------------------
(* class G15DaemonServer                                                     *)

AllowedActions ==
    {"get_status", "get_temps", "get_fans", "get_power_mode", "get_all_data",
     "set_power_mode", "set_fan_boost", "toggle_g_mode", "authenticate"}

\* a server without the allow-list
UnauthorizedNever(action) == FALSE

\* action not in allowed_actions
Unauthorized(action) == ~(action.kind = "str" /\ action.v \in AllowedActions)

\* a process_request that serves only the requests that carry the token authenticate
\* issues, and treats every other request as one of an action that is not allowed
PrFrameTokenChecked(request) ==
    [fn |-> "process_request", pc |-> "pr_690",
     request |-> IF "token" \in DOMAIN request /\ request.token = PyStr("token_hex")
                 THEN request ELSE [action |-> PyStr("denied")]]

PrFrame(request) == [fn |-> "process_request", pc |-> "pr_690", request |-> request]
KeyFrame == [fn |-> "_on_gmode_key_pressed", pc |-> "key_648"]

\* process_request returns: the worker's response
Respond(w, r) ==
    [w EXCEPT !.t.stack = SubSeq(w.t.stack, 1, Len(w.t.stack) - 1), !.t.resp = r]

\* {"status": "success" if success else "error"}
StatusOf(success) == [status |-> IF success THEN "success" ELSE "error"]

\* what the machine offers at startup: the effective user id, whether /proc/acpi/call
\* exists, what lsmod and modprobe do, and whether /proc/acpi/call can be written
Environment(euid, acpi_call_path, lsmod, modprobe, probe) ==
    [euid |-> euid, acpi_call_path |-> acpi_call_path, lsmod |-> lsmod,
     modprobe |-> modprobe, probe |-> probe]

CtlInitFrame(env) == [fn |-> "__init__", pc |-> "init_265", env |-> env]

\* sys.exit(1): SystemExit is no Exception, no handler of the program catches it
SysExit(w) == [w EXCEPT !.t.stack = <<>>, !.t.log = Append(w.t.log, "sys.exit(1)")]
Exited(w) == \E i \in 1..Len(w.t.log) : w.t.log[i] = "sys.exit(1)"

\* with open(self.acpi_call_path, 'w') as f: f.write("test")
ProbeWrite(w) == [w EXCEPT !.t.calls = Append(w.t.calls, [code |-> "test", args |-> <<>>])]

\* a startup that takes the write probe for passed without making it
ProbeSkipped(env) == TRUE

\* the write probe of _check_acpi_availability: open /proc/acpi/call and write "test"
ProbeSucceeds(env) == env.probe = "ok"

\* G15HardwareController.__init__ from _validate_security on, with
\* _check_acpi_availability
CtlInitStep(w) ==
    LET f == Top(w) IN
    CASE f.pc = "init_265" -> IF f.env.euid # 0 THEN SysExit(w) ELSE Goto(w, "init_277")
      [] f.pc = "init_277" ->
           IF ~f.env.acpi_call_path THEN SysExit(w) ELSE Goto(w, "init_282")
      [] f.pc = "init_282" ->
           IF f.env.lsmod = "raises" THEN SysExit(w)
           ELSE IF f.env.lsmod = "loaded" THEN Goto(w, "init_293")
           ELSE Goto(w, "init_285")
      [] f.pc = "init_285" ->
           IF f.env.modprobe = "ok" THEN Goto(w, "init_293") ELSE SysExit(w)
      [] f.pc = "init_293" ->
           IF ProbeSucceeds(f.env) THEN Goto(ProbeWrite(w), "init_262") ELSE SysExit(w)
      [] f.pc = "init_262" -> Call(w, "init_end", LacFrame)
      [] f.pc = "init_end" -> Ret(w, TRUE)

\* g15_controller_commander.py: the client program.  socket is the state of the
\* daemon's socket when the client starts: absent, refusing connections, accepting and
\* never answering, or served by the daemon
GuiFrame(socket, env) ==
    [fn |-> "G15ControllerInterface", pc |-> "gui_276", socket |-> socket, env |-> env]

\* G15DaemonClient._check_daemon
CheckDaemon(socket) == socket \notin {"absent", "refused"}

\* G15DaemonClient.__init__: daemon_available after _check_daemon and _authenticate
DaemonAvailable(socket) == CheckDaemon(socket) /\ socket # "silent"

\* G15ControllerInterface.__init__ with ACPIControllerDirect.__init__; the result is
\* the mode the interface works in
GuiInitStep(w) ==
    LET f == Top(w) IN
    CASE f.pc = "gui_276" ->
           IF DaemonAvailable(f.socket) THEN Ret(w, "daemon") ELSE Goto(w, "gui_371")
      [] f.pc = "gui_371" ->
           IF ~f.env.acpi_call_path THEN SysExit(w) ELSE Goto(w, "gui_376")
      [] f.pc = "gui_376" -> IF f.env.euid # 0 THEN SysExit(w) ELSE Goto(w, "gui_382")
      [] f.pc = "gui_382" ->
           IF f.env.lsmod = "raises" THEN SysExit(w)
           ELSE IF f.env.lsmod = "loaded" THEN Goto(w, "gui_396")
           ELSE Goto(w, "gui_385")
      [] f.pc = "gui_385" ->
           IF f.env.modprobe = "ok" THEN Goto(w, "gui_396") ELSE SysExit(w)
      [] f.pc = "gui_396" ->
           IF f.env.probe = "ok" THEN Goto(ProbeWrite(w), "gui_440") ELSE SysExit(w)
      [] f.pc = "gui_440" ->
           Ret([w EXCEPT !.t.calls = Append(w.t.calls,
                             [code |-> "0x1a", args |-> PadArgs(<<"0x02", "0x02">>)])],
               "direct")

\* secrets.token_hex(16): a string the model does not look into
SessionToken == "token_hex"

\* the data of get_status, of get_power_mode, and of get_temps and get_fans from the
\* values the reads returned
StatusData(w) ==
    [model |-> w.t.hw.model, hwmon_available |-> (w.t.hw.hwmon_temp # PyNone),
     g_mode_active |-> w.c.g_mode_active]
PowerData(w) == [current_mode |-> ModeLabel(w.c.current_mode), g_mode |-> w.c.g_mode_active]
TempsData(acc) == [cpu_temp |-> acc[1], gpu_temp |-> acc[2]]
FansData(acc) ==
    [fan1_rpm |-> acc[1], fan2_rpm |-> acc[2], fan1_boost |-> acc[3], fan2_boost |-> acc[4],
     fan1_manual |-> acc[5], fan2_manual |-> acc[6]]

\* a read of one field of the controller, self.hardware.<field>, and get_power_mode()
AttrFrame(field) == [fn |-> "getattr", pc |-> "attr", field |-> field]
GpmFrame == [fn |-> "get_power_mode", pc |-> "gpm_517"]

\* the reads of the controller's fields that the dict displays of process_request make,
\* each at its own moment, and G15HardwareController.get_power_mode
GetAttrStep(w) ==
    LET f == Top(w) IN
    CASE f.fn = "get_power_mode" -> Ret(w, w.c.current_mode)
      [] f.field = "g_mode_active" -> Ret(w, w.c.g_mode_active)
      [] f.field = "manual_fan_control_1" -> Ret(w, w.c.manual_fan_control[1])
      [] f.field = "manual_fan_control_2" -> Ret(w, w.c.manual_fan_control[2])

\* the controller reads an action makes, in the order of the dict display
ReadPlan(name, hw) ==
    LET temps == <<GctFrame(hw.hwmon_temp, hw.acpi), GgtFrame(hw.hwmon_temp, hw.acpi)>>
        fans == <<GfrFrame(PyInt(1), hw.hwmon_rpm, hw.acpi),
                  GfrFrame(PyInt(2), hw.hwmon_rpm, hw.acpi),
                  GfbFrame(PyInt(1)), GfbFrame(PyInt(2)),
                  AttrFrame("manual_fan_control_1"), AttrFrame("manual_fan_control_2")>>
    IN  CASE name = "get_temps" -> temps
          [] name = "get_fans" -> fans
          [] name = "get_all_data" ->
               temps \o fans \o <<GpmFrame, AttrFrame("g_mode_active"),
                                  AttrFrame("g_mode_active")>>

\* G15DaemonServer.process_request
ProcessRequestStep(w) ==
    LET f == Top(w)
        action == Get(f.request, "action", PyStr(""))
        name == IF action.kind = "str" THEN action.v ELSE ""
    IN
    CASE f.pc = "pr_690" ->
           IF Unauthorized(action)
           THEN Respond(w, [status |-> "error", message |-> "Unauthorized action"])
           ELSE (CASE name = "get_power_mode" ->
                       Respond(w, [status |-> "success", data |-> PowerData(w)])
                  [] name = "set_power_mode" ->
                       LET mode_name == Get(f.request, "mode", PyStr("")) IN
                       IF mode_name.kind \in {"list", "dict"} THEN Raise(w)
                       ELSE IF ~(mode_name.kind = "str" /\ mode_name.v \in DOMAIN ModeMap)
                       THEN Respond(w, [status |-> "error", message |-> "Invalid power mode"])
                       ELSE Call(w, "pr_758", SpmFrame(ModeMap[mode_name.v], TRUE))
                  [] name = "set_fan_boost" ->
                       LET fan_id == Get(f.request, "fan_id", PyNone)
                           percentage == Get(f.request, "percentage", PyNone)
                       IN  IF ~IsInstanceInt(fan_id) \/ ~IsInstanceInt(percentage)
                           THEN Respond(w, [status |-> "error",
                                            message |-> "Invalid parameters"])
                           ELSE Call(w, "pr_768", SfbFrame(fan_id, percentage, TRUE, TRUE))
                  [] name = "toggle_g_mode" -> Call(w, "pr_800", ToggleFrame)
                  [] name = "authenticate" ->
                       Respond(w, [status |-> "success", token |-> SessionToken])
                  [] name = "get_status" -> Respond(w, [status |-> "success", data |-> StatusData(w)])
                  [] name \in {"get_temps", "get_fans", "get_all_data"} ->
                       SetTop(w, [fn |-> f.fn, pc |-> "pr_reads", request |-> f.request,
                                  plan |-> ReadPlan(name, w.t.hw), acc |-> <<>>])
                  [] OTHER -> Respond(w, [status |-> "error", message |-> "Unknown error"]))
      [] f.pc \in {"pr_758", "pr_768", "pr_800"} -> Respond(w, StatusOf(w.t.ret))
      [] f.pc = "pr_reads" ->
           IF Len(f.acc) < Len(f.plan) THEN Call(w, "pr_read", f.plan[Len(f.acc) + 1])
           ELSE Respond(w, [status |-> "success",
                            data |-> CASE name = "get_temps" -> TempsData(f.acc)
                                       [] name = "get_fans" -> FansData(f.acc)
                                       [] name = "get_all_data" ->
                                            [temps |-> TempsData(SubSeq(f.acc, 1, 2)),
                                             fans |-> FansData(SubSeq(f.acc, 3, 8)),
                                             power |->
                                                 [current_mode |-> ModeLabel(f.acc[9]),
                                                  g_mode |-> f.acc[10]],
                                             status |->
                                                 [StatusData(w) EXCEPT
                                                      !.g_mode_active = f.acc[11]]]])
      [] f.pc = "pr_read" ->
           SetTop(w, [f EXCEPT !.acc = Append(f.acc, w.t.ret), !.pc = "pr_reads"])

\* G15DaemonServer._on_gmode_key_pressed, the key listener's callback
OnGmodeKeyPressedStep(w) ==
    LET f == Top(w) IN
    CASE f.pc = "key_648" -> Call(w, "key_649", ToggleFrame)
      [] f.pc = "key_649" -> Ret(w, TRUE)

-----------------------------------------------------------------------------
(* One statement of the running thread, and a handler run to its end         *)

\* the window of validate_request, in seconds, and the length its list may not exceed
RateWindow == 10
RateLimit == 50

\* a pruning that keeps the requests that are exactly RateWindow seconds old
PrunedInclusive(times, t) == SelectSeq(times, LAMBDA req_time : t - req_time <= RateWindow)

\* [req_time for req_time in self.client_requests[client_addr] if now - req_time < 10]
Pruned(times, t) == SelectSeq(times, LAMBDA req_time : t - req_time < RateWindow)

\* the quota check of validate_request, on the pruned list
OverQuota(times) == Len(times) > RateLimit

\* field in request_data: a key of a dict, an element of a list, a substring of a
\* string; a TypeError for a number, a boolean and None
FieldIn(field, request_data) ==
    CASE request_data.kind = "dict" ->
           IF field \in DOMAIN request_data.v THEN "in" ELSE "absent"
      [] request_data.kind = "list" ->
           IF \E i \in DOMAIN request_data.v :
                  request_data.v[i].kind = "str" /\ request_data.v[i].v = field
           THEN "in" ELSE "absent"
      [] request_data.kind = "str" ->
           IF Contains(request_data.v, field) THEN "in" ELSE "absent"
      [] OTHER -> "raises"

\* a validate_request that records the request before it checks the quota
ValidateRequestRecordingFirst(requests, client_addr, request_data, t) ==
    LET recorded == Append(Pruned(Get(requests, client_addr, <<>>), t), t)
        Store(times) == [a \in DOMAIN requests \cup {client_addr} |->
                            IF a = client_addr THEN times ELSE requests[a]]
        field == FieldIn("action", request_data)
    IN  IF OverQuota(recorded)
        THEN [requests |-> Store(recorded), passed |-> FALSE, result |-> FALSE,
              raised |-> FALSE]
        ELSE [requests |-> Store(recorded), passed |-> TRUE,
              result |-> (field = "in"), raised |-> (field = "raises")]

\* G15DaemonServer.validate_request: client_requests afterwards, whether the quota
\* check was passed, the result, and whether the field check raised instead
ValidateRequest(requests, client_addr, request_data, t) ==
    LET pruned == Pruned(Get(requests, client_addr, <<>>), t)
        Store(times) == [a \in DOMAIN requests \cup {client_addr} |->
                            IF a = client_addr THEN times ELSE requests[a]]
        field == FieldIn("action", request_data)
    IN  IF OverQuota(pruned)
        THEN [requests |-> Store(pruned), passed |-> FALSE, result |-> FALSE,
              raised |-> FALSE]
        ELSE [requests |-> Store(Append(pruned, t)), passed |-> TRUE,
              result |-> (field = "in"), raised |-> (field = "raises")]

\* the bytes a client sends: nothing, bytes that are not UTF-8, text that is not
\* JSON, a JSON document
EmptyPayload == [st |-> "empty"]
NotUtf8Payload == [st |-> "not_utf8"]
GarbagePayload == [st |-> "garbage"]
JsonPayload(x) == [st |-> "json", doc |-> Dumps(x)]

\* a connection on which nothing has arrived and whose other end is open
NoData == [st |-> "none"]

\* client_socket.recv(4096) on a socket without timeout returns once data has
\* arrived or the client has closed its end
RecvReturns(data) == data.st # "none"

HcFrame(client_addr, data) ==
    [fn |-> "handle_client", pc |-> "hc_810", client_addr |-> client_addr, data |-> data]

\* client_socket.send(json.dumps(response).encode('utf-8'))
Send(w, response) == [w EXCEPT !.t.sent = Append(w.t.sent, response)]

\* G15DaemonServer.handle_client
HandleClientStep(w) ==
    LET f == Top(w) IN
    CASE f.pc = "hc_810" ->
           IF f.data.st = "empty" THEN Goto(w, "hc_831")
           ELSE IF f.data.st = "not_utf8" THEN Raise(w)
           ELSE IF f.data.st = "garbage" THEN Goto(w, "hc_825")
           ELSE SetTop(w, [fn |-> f.fn, pc |-> "hc_816", client_addr |-> f.client_addr,
                           request_data |-> Loads(f.data.doc)])
      [] f.pc = "hc_816" ->
           LET r == ValidateRequest(w.requests, f.client_addr, f.request_data, w.now)
               v == [w EXCEPT !.requests = r.requests]
           IN  IF r.raised THEN Raise(v)
               ELSE IF ~r.result
               THEN Goto([v EXCEPT !.t.resp = [status |-> "error",
                                               message |-> "Request validation failed"]],
                         "hc_821")
               ELSE Goto(v, "hc_819")
      \* request_data.get, the first statement of process_request, outside its try
      [] f.pc = "hc_819" ->
           IF f.request_data.kind = "dict"
           THEN Call(w, "hc_821", PrFrame(f.request_data.v))
           ELSE Raise(w)
      [] f.pc = "hc_821" -> Goto(Send(w, w.t.resp), "hc_831")
      [] f.pc = "hc_825" ->
           Goto(Send(w, [status |-> "error", message |-> "Invalid JSON"]), "hc_831")
      [] f.pc = "hc_831" -> Ret([w EXCEPT !.t.closed = TRUE], TRUE)

Step(w) ==
    LET fn == Top(w).fn IN
    CASE fn = "save" -> SaveStep(w)
      [] fn = "load" -> LoadStep(w)
      [] fn = "_save_current_config" -> SaveCurrentConfigStep(w)
      [] fn = "_load_and_apply_config" -> LoadAndApplyConfigStep(w)
      [] fn = "set_power_mode" -> SetPowerModeStep(w)
      [] fn = "set_fan_boost" -> SetFanBoostStep(w)
      [] fn = "get_fan_boost" -> GetFanBoostStep(w)
      [] fn \in {"getattr", "get_power_mode"} -> GetAttrStep(w)
      [] fn = "__init__" -> CtlInitStep(w)
      [] fn = "G15ControllerInterface" -> GuiInitStep(w)
      [] fn = "_acpi_call_real" -> AcpiCallRealStep(w)
      [] fn = "get_cpu_temp" -> GetCpuTempStep(w)
      [] fn = "get_gpu_temp" -> GetGpuTempStep(w)
      [] fn = "get_fan_rpm" -> GetFanRpmStep(w)
      [] fn = "enable_g_mode" -> EnableGModeStep(w)
      [] fn = "disable_g_mode" -> DisableGModeStep(w)
      [] fn = "toggle_g_mode" -> ToggleGModeStep(w)
      [] fn = "process_request" -> ProcessRequestStep(w)
      [] fn = "handle_client" -> HandleClientStep(w)
      [] fn = "_on_gmode_key_pressed" -> OnGmodeKeyPressedStep(w)

RECURSIVE Run(_)
Run(w) == IF w.t.stack = <<>> THEN w ELSE Run(Step(w))

\* the statements that read and write nothing but the locals of their own thread:
\* calls and returns, the loop head of disable_g_mode, validation and the write of
\* the private temporary file in save().  Every other statement reads or writes the
\* controller's fields, the ACPI interface or the config files.
LocalPcs ==
    {"acr_421", "spm_539", "spm_542", "sfb_563", "sfb_566", "eg_584", "eg_587", "dg_604", "dg_607",
     "dg_617", "dg_620", "tg_626", "scc_399", "save_179", "save_188", "save_193", "save_202",
     "pr_758", "pr_768", "pr_800", "key_648", "key_649"}

\* the local statements that follow a shared access; no other thread can observe
\* where among them the thread stands
RECURSIVE RunLocal(_)
RunLocal(w) ==
    IF w.t.stack = <<>> \/ Top(w).pc \notin LocalPcs THEN w ELSE RunLocal(Step(w))

-----------------------------------------------------------------------------
(* The state of the program as a world, and back                             *)

C == [current_mode |-> current_mode, g_mode_active |-> g_mode_active,
      manual_mode |-> manual_mode, current_fan_boosts |-> current_fan_boosts,
      manual_fan_control |-> manual_fan_control, pre_gmode_state |-> pre_gmode_state]

CM == [config_file |-> config_file, backup_file |-> backup_file,
       default_config |-> default_config]

World(t) ==
    [c |-> C, cm |-> CM, t |-> t, now |-> now, requests |-> client_requests,
     acpi_call |-> acpi_call]

Commit(w) ==
    /\ current_mode' = w.c.current_mode
    /\ g_mode_active' = w.c.g_mode_active
    /\ manual_mode' = w.c.manual_mode
    /\ current_fan_boosts' = w.c.current_fan_boosts
    /\ manual_fan_control' = w.c.manual_fan_control
    /\ pre_gmode_state' = w.c.pre_gmode_state
    /\ config_file' = w.cm.config_file
    /\ backup_file' = w.cm.backup_file
    /\ default_config' = w.cm.default_config
    /\ acpi_call' = w.acpi_call

\* what the machine answers to the reads of one handler: the model code, the hwmon
\* readings (None without hwmon sensor) and the answer of /proc/acpi/call
Hardware(model, hwmon_temp, hwmon_rpm, acpi) ==
    [model |-> model, hwmon_temp |-> hwmon_temp, hwmon_rpm |-> hwmon_rpm, acpi |-> acpi]
QuietHardware == Hardware("Unknown", PyNone, PyNone, [st |-> "ok", text |-> "0x0"])

\* a thread that runs nothing
IdleThread ==
    [stack |-> <<>>, calls |-> <<>>, log |-> <<>>, ret |-> TRUE, resp |-> PyNone, io |-> "ok",
     kind |-> "idle", request |-> <<>>, hw |-> QuietHardware, sent |-> <<>>, closed |-> FALSE]

\* a thread entering the handler `frame`; io is how the file system answers its writes
StartThread(kind, request, io, frame) ==
    [stack |-> <<frame>>, calls |-> <<>>, log |-> <<>>, ret |-> TRUE, resp |-> PyNone, io |-> io,
     kind |-> kind, request |-> request, hw |-> QuietHardware, sent |-> <<>>, closed |-> FALSE]

\* what a finished handler leaves to observe
LastOf(w) ==
    [kind |-> w.t.kind, request |-> w.t.request, resp |-> w.t.resp, calls |-> w.t.calls,
     log |-> w.t.log, sent |-> w.t.sent, closed |-> w.t.closed,
     ret |-> w.t.ret, io |-> w.t.io]

NoLast ==
    [kind |-> "none", request |-> <<>>, resp |-> PyNone, calls |-> <<>>, log |-> <<>>,
     sent |-> <<>>, closed |-> FALSE,
     ret |-> TRUE,
     io |-> "ok"]

IOOutcomes == {"ok", "copy_fails", "write_fails"}

\* a config file as _save_current_config writes it
ConfigDoc(label, g_mode, b1, b2, m1, m2, auto_apply) ==
    Dumps(PyDict([power_mode |-> PyStr(label),
                  g_mode |-> PyBool(g_mode),
                  fan_profiles |-> PyDict([cpu_fan_boost |-> PyInt(b1),
                                           gpu_fan_boost |-> PyInt(b2),
                                           cpu_manual |-> PyBool(m1),
                                           gpu_manual |-> PyBool(m2)]),
                  auto_apply |-> PyBool(auto_apply),
                  last_saved |-> PyStr("T0"),
                  version |-> PyStr("1.0")]))

\* G15HardwareController.__init__ up to _load_and_apply_config, G15DaemonServer.__init__
InitFields ==
    /\ phase = "init"
    /\ current_mode = "BALANCED"
    /\ g_mode_active = FALSE
    /\ manual_mode = FALSE
    /\ current_fan_boosts = <<0, 0>>
    /\ manual_fan_control = <<FALSE, FALSE>>
    /\ pre_gmode_state = NoSnapshot
    /\ default_config = DefaultConfig
    /\ acpi_call = NoAnswer
    /\ last = NoLast
    /\ nstarted = 0
    /\ now = 0
    /\ client_requests = <<>>
    /\ admitted = <<>>
    /\ last_validate =
           [kind |-> "none", addr |-> "", at |-> 0, wellformed |-> TRUE, passed |-> TRUE,
            result |-> TRUE, last_passed_at |-> -1, after_limit |-> FALSE,
            limited |-> FALSE, malformed |-> 0]

\* the call of _load_and_apply_config that ends G15HardwareController.__init__
Startup(io) ==
    /\ phase = "init"
    /\ LET w == Run(World(StartThread("startup", <<>>, io, LacFrame))) IN
       /\ Commit(w)
       /\ last' = LastOf(w)
    /\ phase' = "running"
    /\ UNCHANGED <<threads, nstarted, now, client_requests, admitted, last_validate>>

-----------------------------------------------------------------------------
(* The daemon of src/g15_daemon.py, the variant without persistence and      *)
(* without the pre-G-Mode snapshot.  Its controller keeps current_mode,      *)
(* g_mode_active and manual_mode only; its _acpi_call_real is the one of     *)
(* the other variant.  Each method is one operator from the world before the *)
(* call to the world after it.                                               *)

\* src/g15_daemon.py, G15HardwareController.set_power_mode
LegacySetPowerMode(w, mode) ==
    IF mode \notin PowerMode THEN [w EXCEPT !.t.ret = FALSE]
    ELSE LET w1 == [w EXCEPT !.c.current_mode = mode, !.c.manual_mode = (mode = "CUSTOM")] IN
         IF mode = "CUSTOM" THEN [w1 EXCEPT !.t.ret = TRUE]
         ELSE [AcpiCallReal(w1, "0x15", <<"0x01", ModeCode(mode)>>) EXCEPT !.t.ret = TRUE]

\* src/g15_daemon.py, G15HardwareController.set_fan_boost
LegacySetFanBoost(w, fan_id, percentage) ==
    IF ~ValidFanId(fan_id) \/ ~ValidPercentage(percentage) THEN [w EXCEPT !.t.ret = FALSE]
    ELSE [AcpiCallReal(w, "0x15", <<"0x02", SensorId(IntOf(fan_id)),
                                   Hex02X(IntOf(percentage))>>)
            EXCEPT !.t.ret = TRUE]

\* src/g15_daemon.py, G15HardwareController.enable_g_mode
LegacyEnableGMode(w) ==
    LET w1 == [w EXCEPT !.c.g_mode_active = TRUE]
        w2 == AcpiCallReal(w1, "0x15", <<"0x01", "0xab">>)
        w3 == AcpiCallReal(w2, "0x25", <<"0x01", "0x01">>)
    IN  [w3 EXCEPT !.t.ret = TRUE]

\* src/g15_daemon.py, G15HardwareController.disable_g_mode
LegacyDisableGMode(w) ==
    LET w1 == [w EXCEPT !.c.g_mode_active = FALSE]
        w2 == AcpiCallReal(w1, "0x15", <<"0x01", ModeCode(w1.c.current_mode)>>)
        w3 == AcpiCallReal(w2, "0x25", <<"0x01", "0x00">>)
    IN  [w3 EXCEPT !.t.ret = TRUE]

\* src/g15_daemon.py, G15HardwareController.toggle_g_mode
LegacyToggleGMode(w) ==
    IF w.c.g_mode_active THEN LegacyDisableGMode(w) ELSE LegacyEnableGMode(w)

-----------------------------------------------------------------------------
(* Spec: the threaded daemon.  start_server gives every connection a thread  *)
(* of its own, the key listener gives every press one; no lock is taken      *)
(* anywhere, so the statements of the running handlers interleave freely.    *)

Workers == {"worker1", "worker2"}
Threads == Workers \cup {"key"}

ThreadedFiles ==
    {MissingFile,
     JsonFile(ConfigDoc("Personalizado", TRUE, 70, 0, TRUE, FALSE, TRUE)),
     JsonFile(ConfigDoc("Personalizado", FALSE, 0, 0, FALSE, FALSE, TRUE))}

ThreadedRequests ==
    {[action |-> PyStr("set_power_mode"), mode |-> PyStr("Balanceado")],
     [action |-> PyStr("set_power_mode"), mode |-> PyStr("Personalizado")],
     [action |-> PyStr("set_fan_boost"), fan_id |-> PyInt(1), percentage |-> PyInt(70)],
     [action |-> PyStr("set_fan_boost"), fan_id |-> PyInt(1), percentage |-> PyInt(0)],
     [action |-> PyStr("toggle_g_mode")]}

Init ==
    /\ InitFields
    /\ config_file \in ThreadedFiles
    /\ backup_file = MissingFile
    /\ threads = [th \in Threads |-> IdleThread]

\* start_server: accept() and client_thread.start(), up to the call of process_request
StartRequest(th, request) ==
    /\ phase = "running"
    /\ threads[th].kind = "idle"
    /\ nstarted < MaxStarted
    /\ threads' = [threads EXCEPT ![th] = StartThread("ipc", request, "ok", PrFrame(request))]
    /\ nstarted' = nstarted + 1
    /\ UNCHANGED <<phase, current_mode, g_mode_active, manual_mode, current_fan_boosts,
                   manual_fan_control, pre_gmode_state, config_file, backup_file,
                   default_config, last, now, client_requests, admitted, last_validate, acpi_call>>

\* GModeKeyListener.read_key_events: a press starts a thread on the callback
KeyPress ==
    /\ phase = "running"
    /\ threads["key"].kind = "idle"
    /\ nstarted < MaxStarted
    /\ threads' = [threads EXCEPT !["key"] =
                       RunLocal(World(StartThread("key", <<>>, "ok", KeyFrame))).t]
    /\ nstarted' = nstarted + 1
    /\ UNCHANGED <<phase, current_mode, g_mode_active, manual_mode, current_fan_boosts,
                   manual_fan_control, pre_gmode_state, config_file, backup_file,
                   default_config, last, now, client_requests, admitted, last_validate, acpi_call>>

\* one statement of one running thread that touches shared state, with the local
\* statements that follow it
ThreadStep(th) ==
    /\ threads[th].kind # "idle"
    /\ LET w == RunLocal(Step(World(threads[th]))) IN
       /\ Commit(w)
       /\ IF w.t.stack = <<>>
          THEN /\ threads' = [threads EXCEPT ![th] = IdleThread]
               /\ last' = LastOf(w)
          ELSE /\ threads' = [threads EXCEPT ![th] = w.t]
               /\ UNCHANGED last
    /\ UNCHANGED <<phase, nstarted, now, client_requests, admitted, last_validate>>

Next ==
    \/ Startup("ok")
    \/ \E th \in Workers, request \in ThreadedRequests : StartRequest(th, request)
    \/ KeyPress
    \/ \E th \in Threads : ThreadStep(th)

Spec == Init /\ [][Next]_vars

-----------------------------------------------------------------------------
(* SpecPoll: the threaded daemon with a client that polls get_all_data while *)
(* another client or the hotkey mutates the controller.                      *)

PollRequests ==
    {[action |-> PyStr("get_all_data")],
     [action |-> PyStr("set_power_mode"), mode |-> PyStr("Balanceado")],
     [action |-> PyStr("set_fan_boost"), fan_id |-> PyInt(1), percentage |-> PyInt(70)],
     [action |-> PyStr("toggle_g_mode")]}

NextPoll ==
    \/ Startup("ok")
    \/ \E th \in Workers, request \in PollRequests : StartRequest(th, request)
    \/ KeyPress
    \/ \E th \in Threads : ThreadStep(th)

SpecPoll == Init /\ [][NextPoll]_vars

-----------------------------------------------------------------------------
(* SpecAcpi: the ACPI calls of concurrent handlers.  The threads of two      *)
(* requests are inside _acpi_call_real at the same time, as the sensor reads *)
(* of get_temps and get_fans and the write of set_power_mode are when two    *)
(* clients are served; the firmware answers each command with a value of its *)
(* own.                                                                      *)

ConcurrentAcpiCalls ==
    {AcrFrame("0x14", <<"0x04", "0x01">>, [st |-> "ok", text |-> "0x37"]),
     AcrFrame("0x14", <<"0x04", "0x02">>, [st |-> "ok", text |-> "0x40"]),
     AcrFrame("0x14", <<"0x05", "0x32">>, [st |-> "ok", text |-> "0xbb8"]),
     AcrFrame("0x15", <<"0x01", "0xa1">>, [st |-> "ok", text |-> "0x0"])}

\* a worker thread reaches a call of _acpi_call_real
StartCall(th, frame) ==
    /\ phase = "running"
    /\ threads[th].kind = "idle"
    /\ nstarted < MaxStarted
    /\ threads' = [threads EXCEPT ![th] = StartThread("call", frame, "ok", frame)]
    /\ nstarted' = nstarted + 1
    /\ UNCHANGED <<phase, current_mode, g_mode_active, manual_mode, current_fan_boosts,
                   manual_fan_control, pre_gmode_state, config_file, backup_file,
                   default_config, last, now, client_requests, admitted, last_validate,
                   acpi_call>>

NextAcpi ==
    \/ Startup("ok")
    \/ \E th \in Workers, frame \in ConcurrentAcpiCalls : StartCall(th, frame)
    \/ \E th \in Workers : ThreadStep(th)

SpecAcpi == Init /\ [][NextAcpi]_vars

-----------------------------------------------------------------------------
(* SpecToggle: the threaded daemon receiving toggle_g_mode triggers only,    *)
(* from clients and from the G-Mode key, after a startup that leaves G-Mode  *)
(* off.                                                                      *)

ToggleFiles ==
    {MissingFile,
     JsonFile(ConfigDoc("Personalizado", FALSE, 70, 0, TRUE, FALSE, TRUE))}

ToggleRequest == [action |-> PyStr("toggle_g_mode")]

InitToggle ==
    /\ InitFields
    /\ config_file \in ToggleFiles
    /\ backup_file = MissingFile
    /\ threads = [th \in Threads |-> IdleThread]

NextToggle ==
    \/ Startup("ok")
    \/ \E th \in Workers : StartRequest(th, ToggleRequest)
    \/ KeyPress
    \/ \E th \in Threads : ThreadStep(th)

SpecToggle == InitToggle /\ [][NextToggle]_vars

-----------------------------------------------------------------------------
(* SpecSeq: the daemon serving one handler at a time.  Every action is a     *)
(* whole handler, process_request or the hotkey callback, run to its end.    *)

SeqFiles ==
    {MissingFile, GarbageFile,
     JsonFile(ConfigDoc("Personalizado", TRUE, 70, 0, TRUE, FALSE, TRUE)),
     JsonFile(ConfigDoc("Performance", FALSE, 0, 0, FALSE, FALSE, TRUE)),
     JsonFile(ConfigDoc("Personalizado", FALSE, 70, 100, TRUE, TRUE, FALSE))}

\* the requests of a well-behaved client
SeqRequests ==
    {[action |-> PyStr("set_power_mode"), mode |-> PyStr(m)] : m \in ValidModes}
    \cup {[action |-> PyStr("set_fan_boost"), fan_id |-> PyInt(i), percentage |-> PyInt(p)] :
              i \in {1, 2}, p \in {0, 70}}
    \cup {[action |-> PyStr("toggle_g_mode")], [action |-> PyStr("get_power_mode")]}

InitSeq ==
    /\ InitFields
    /\ config_file \in SeqFiles
    /\ backup_file = MissingFile
    /\ threads = [th \in Threads |-> IdleThread]

\* handle_client from the call of process_request on, with no other handler running
SeqRequest(request, io) ==
    /\ phase = "running"
    /\ LET w == Run(World(StartThread("ipc", request, io, PrFrame(request)))) IN
       /\ Commit(w)
       /\ last' = LastOf(w)
    /\ UNCHANGED <<phase, threads, nstarted, now, client_requests, admitted, last_validate>>

\* a press of the G-Mode key, with no other handler running
SeqKeyPress(io) ==
    /\ phase = "running"
    /\ LET w == Run(World(StartThread("key", <<>>, io, KeyFrame))) IN
       /\ Commit(w)
       /\ last' = LastOf(w)
    /\ UNCHANGED <<phase, threads, nstarted, now, client_requests, admitted, last_validate>>

NextSeq ==
    \/ Startup("ok")
    \/ \E request \in SeqRequests : SeqRequest(request, "ok")
    \/ SeqKeyPress("ok")

SpecSeq == InitSeq /\ [][NextSeq]_vars

-----------------------------------------------------------------------------
(* SpecGate: the daemon fed requests and direct calls with unknown actions   *)
(* and invalid parameters among valid ones, one handler at a time.           *)

GateFiles == {MissingFile, JsonFile(ConfigDoc("Personalizado", FALSE, 70, 0, TRUE, FALSE, TRUE))}

\* action values outside the allow-list: method names, other spellings, other types
UnknownActions ==
    {PyStr("enable_g_mode"), PyStr("disable_g_mode"), PyStr("acpi_call"),
     PyStr("Set_Power_Mode"), PyStr(""), PyInt(1), PyNone}

\* fan ids and percentages, valid and invalid
GateFanIds == {PyInt(0), PyInt(1), PyInt(3), PyStr("1"), PyBool(TRUE), PyNone}
GatePercentages == {PyInt(-1), PyInt(0), PyInt(100), PyInt(101), PyStr("70")}

GateRequests ==
    {[action |-> a] : a \in UnknownActions}
    \cup {[action |-> PyStr("enable_g_mode"), mode |-> PyStr("Performance")],
          [mode |-> PyStr("Performance")],
          [action |-> PyStr("set_power_mode"), mode |-> PyStr("Personalizado")],
          [action |-> PyStr("toggle_g_mode")]}
    \cup {[action |-> PyStr("set_fan_boost"), fan_id |-> i, percentage |-> p] :
              i \in GateFanIds, p \in GatePercentages}

\* direct calls of the two fan-boost methods
GateCalls ==
    {SfbFrame(i, p, TRUE, TRUE) : i \in GateFanIds, p \in GatePercentages}
    \cup {GfbFrame(i) : i \in GateFanIds}

InitGate ==
    /\ InitFields
    /\ config_file \in GateFiles
    /\ backup_file = MissingFile
    /\ threads = [th \in Threads |-> IdleThread]

\* a controller method called directly, with no other handler running
DirectCall(frame) ==
    /\ phase = "running"
    /\ LET w == Run(World(StartThread("call", frame, "ok", frame))) IN
       /\ Commit(w)
       /\ last' = LastOf(w)
    /\ UNCHANGED <<phase, threads, nstarted, now, client_requests, admitted, last_validate>>

NextGate ==
    \/ Startup("ok")
    \/ \E request \in GateRequests : SeqRequest(request, "ok")
    \/ \E frame \in GateCalls : DirectCall(frame)

SpecGate == InitGate /\ [][NextGate]_vars

-----------------------------------------------------------------------------
(* SpecRate: G15DaemonServer.validate_request under a clock.  Requests of    *)
(* one address are validated one at a time; the clock moves between them.    *)

\* the clock advances in steps of TickSeconds, up to MaxNow; at most MaxMalformed
\* requests of a run lack the action field
TickSeconds == 5
MaxNow == 10
MaxMalformed == 1

Addresses == {"addr"}

\* the request bodies validate_request tells apart: with and without an action
RateRequests ==
    {PyDict([action |-> PyStr("get_all_data")]), PyDict([mode |-> PyStr("Balanceado")])}

InitRate ==
    /\ InitFields
    /\ config_file = MissingFile
    /\ backup_file = MissingFile
    /\ threads = [th \in Threads |-> IdleThread]

\* time passes
Tick ==
    /\ now + TickSeconds <= MaxNow
    /\ now' = now + TickSeconds
    /\ UNCHANGED <<client_requests, admitted, last_validate>>
    /\ UNCHANGED ctlVars

\* handle_client calls validate_request for a request of client_addr.  The observers:
\* admitted keeps the times of the last RateWindow seconds at which the result was True;
\* last_validate keeps the call, the time last_passed_at of the latest earlier request
\* that passed the quota check, and whether the address is limited: rejected for quota
\* and not admitted since.
Validate(client_addr, request_data) ==
    LET r == ValidateRequest(client_requests, client_addr, request_data, now)
        before == Get(admitted, client_addr, <<>>)
        inWindow == SelectSeq(before, LAMBDA t : now - t < RateWindow)
        wellformed == FieldIn("action", request_data) = "in"
    IN  /\ wellformed \/ last_validate.malformed < MaxMalformed
        /\ client_requests' = r.requests
        /\ admitted' = [a \in DOMAIN admitted \cup {client_addr} |->
                           IF a # client_addr THEN admitted[a]
                           ELSE IF r.result THEN Append(inWindow, now) ELSE inWindow]
        /\ last_validate' =
               [kind |-> "call", addr |-> client_addr, at |-> now,
                wellformed |-> wellformed, passed |-> r.passed, result |-> r.result,
                last_passed_at |-> IF last_validate.kind = "call" /\ last_validate.passed
                                   THEN last_validate.at ELSE last_validate.last_passed_at,
                after_limit |-> last_validate.limited,
                limited |-> IF r.result THEN FALSE
                            ELSE IF ~r.passed THEN TRUE ELSE last_validate.limited,
                malformed |-> last_validate.malformed + (IF wellformed THEN 0 ELSE 1)]
        /\ UNCHANGED now
        /\ UNCHANGED ctlVars

NextRate ==
    \/ Tick
    \/ \E a \in Addresses, request_data \in RateRequests : Validate(a, request_data)

SpecRate == InitRate /\ [][NextRate]_vars

-----------------------------------------------------------------------------
(* SpecConfig: ConfigManager alone.  save() and load() are called with       *)
(* configs of every kind while the clock moves and the file gets corrupted.  *)

\* a config of the persisted fields
Config(power_mode, g_mode, fan_profiles) ==
    PyDict([power_mode |-> power_mode, g_mode |-> g_mode, fan_profiles |-> fan_profiles,
            auto_apply |-> PyBool(TRUE), version |-> PyStr("1.0")])

FanProfileInputs ==
    {PyDict([cpu_fan_boost |-> PyInt(70), gpu_fan_boost |-> PyInt(0),
             cpu_manual |-> PyBool(TRUE), gpu_manual |-> PyBool(FALSE)]),
     PyDict([cpu_fan_boost |-> PyInt(101), gpu_fan_boost |-> PyInt(0),
             cpu_manual |-> PyBool(TRUE), gpu_manual |-> PyBool(FALSE)]),
     PyDict([cpu_fan_boost |-> PyBool(TRUE)])}

\* the configs handed to save(): valid ones, ones with a mode outside the closed set,
\* a g_mode that is no bool, a boost out of range, a missing field, a stale last_saved
ConfigInputs ==
    {Config(PyStr(l), g, fp) :
         l \in {"Personalizado", "Turbo"}, g \in {PyBool(TRUE), PyInt(1)},
         fp \in FanProfileInputs}
    \cup {DefaultConfig,
          SetItem(DefaultConfig, "last_saved", PyStr("stale")),
          PyDict([power_mode |-> PyStr("Balanceado"), g_mode |-> PyBool(FALSE)])}

InitConfig ==
    /\ InitFields
    /\ config_file = MissingFile
    /\ backup_file = MissingFile
    /\ threads = [th \in Threads |-> IdleThread]

\* config_manager.save(config), the file operations succeeding
Save(config) ==
    /\ LET w == Run(World(StartThread("save", config, "ok", SaveFrame(config, "local")))) IN
       /\ Commit(w)
       /\ last' = LastOf(w)
    /\ UNCHANGED <<phase, threads, nstarted, now, client_requests, admitted, last_validate>>

\* config_manager.load()
Load ==
    /\ LET w == Run(World(StartThread("load", <<>>, "ok", LoadFrame))) IN
       /\ Commit(w)
       /\ last' = LastOf(w)
    /\ UNCHANGED <<phase, threads, nstarted, now, client_requests, admitted, last_validate>>

\* the config file is overwritten with text that is no JSON
Corrupt ==
    /\ config_file.st = "json"
    /\ config_file' = GarbageFile
    /\ UNCHANGED <<phase, current_mode, g_mode_active, manual_mode, current_fan_boosts,
                   manual_fan_control, pre_gmode_state, backup_file, threads, last, nstarted,
                   now, default_config, client_requests, admitted, last_validate, acpi_call>>

NextConfig ==
    \/ Tick
    \/ \E config \in ConfigInputs : Save(config)
    \/ Load
    \/ Corrupt

SpecConfig == InitConfig /\ [][NextConfig]_vars

-----------------------------------------------------------------------------
(* SpecLegacy: the controller of src/g15_daemon.py after construction, its   *)
(* methods called one after the other.                                       *)

LegacyCalls ==
    {[fn |-> "set_power_mode", mode |-> m] : m \in PowerMode}
    \cup {[fn |-> "set_fan_boost", fan_id |-> PyInt(i), percentage |-> PyInt(p)] :
              i \in {1, 2, 3}, p \in {0, 70, 100, 101}}
    \cup {[fn |-> "enable_g_mode"], [fn |-> "disable_g_mode"], [fn |-> "toggle_g_mode"]}

InitLegacy ==
    /\ phase = "running"
    /\ current_mode = "BALANCED"
    /\ g_mode_active = FALSE
    /\ manual_mode = FALSE
    /\ current_fan_boosts = <<0, 0>>
    /\ manual_fan_control = <<FALSE, FALSE>>
    /\ pre_gmode_state = NoSnapshot
    /\ default_config = DefaultConfig
    /\ acpi_call = NoAnswer
    /\ config_file = MissingFile
    /\ backup_file = MissingFile
    /\ threads = [th \in Threads |-> IdleThread]
    /\ last = NoLast
    /\ nstarted = 0
    /\ now = 0
    /\ client_requests = <<>>
    /\ admitted = <<>>
    /\ last_validate =
           [kind |-> "none", addr |-> "", at |-> 0, wellformed |-> TRUE, passed |-> TRUE,
            result |-> TRUE, last_passed_at |-> -1, after_limit |-> FALSE,
            limited |-> FALSE, malformed |-> 0]

\* a method of the controller of src/g15_daemon.py is called
LegacyCall(call) ==
    /\ LET w0 == World([IdleThread EXCEPT !.kind = "call", !.request = call])
           w == CASE call.fn = "set_power_mode" -> LegacySetPowerMode(w0, call.mode)
                  [] call.fn = "set_fan_boost" ->
                       LegacySetFanBoost(w0, call.fan_id, call.percentage)
                  [] call.fn = "enable_g_mode" -> LegacyEnableGMode(w0)
                  [] call.fn = "disable_g_mode" -> LegacyDisableGMode(w0)
                  [] call.fn = "toggle_g_mode" -> LegacyToggleGMode(w0)
       IN  /\ Commit(w)
           /\ last' = LastOf(w)
    /\ UNCHANGED <<phase, threads, nstarted, now, client_requests, admitted, last_validate>>

NextLegacy == \E call \in LegacyCalls : LegacyCall(call)

SpecLegacy == InitLegacy /\ [][NextLegacy]_vars

-----------------------------------------------------------------------------
(* SpecKeys: the key listener.  read_key_events reads one input event per    *)
(* turn of its loop and starts a thread on the callback for a press of the   *)
(* G-Mode key; the callback is run to its end before the next event.         *)

\* self.key_code, KEY_PROG1, and the size of a struct input_event
KeyCode == 148
EventSize == 24
\* the events read in one run
MaxEvents == 3

\* what device.read(24) returns: the bytes read and the fields they unpack to
InputEvents ==
    [len : {EventSize, 8}, type : {0, 1, 4}, code : {KeyCode, 30, 149}, value : {0, 1, 2}]

\* a listener that takes every event of the G-Mode key for a press
IsGModeKeyEvent(ev) == ev.len = EventSize /\ ev.type = 1 /\ ev.code = KeyCode

\* len(event_data) == 24 and type_ == 1 and code == self.key_code and value == 1
IsGModePress(ev) == ev.len = EventSize /\ ev.type = 1 /\ ev.code = KeyCode /\ ev.value = 1

\* one turn of the loop of read_key_events on the event ev
ReadKeyEvent(ev) ==
    /\ phase = "running"
    /\ nstarted < MaxEvents
    /\ IF IsGModePress(ev)
       THEN LET w == Run(World(StartThread("key", ev, "ok", KeyFrame))) IN
            /\ Commit(w)
            /\ last' = LastOf(w)
            /\ nstarted' = nstarted + 1
       ELSE /\ last' = LastOf(World([IdleThread EXCEPT !.kind = "event", !.request = ev]))
            /\ UNCHANGED <<current_mode, g_mode_active, manual_mode, current_fan_boosts,
                           manual_fan_control, pre_gmode_state, config_file, backup_file,
                           default_config, nstarted, acpi_call>>
    /\ UNCHANGED <<phase, threads, now, client_requests, admitted, last_validate>>

NextKeys ==
    \/ Startup("ok")
    \/ \E ev \in InputEvents : ReadKeyEvent(ev)

SpecKeys == InitSeq /\ [][NextKeys]_vars

-----------------------------------------------------------------------------
(* load() over every content of the two files: each of the config file and   *)
(* the backup is missing, no JSON, JSON that is no object, JSON that fails   *)
(* the schema in one way, or a valid config; something outside the daemon    *)
(* may rewrite either file between two loads.                                *)

FileContents ==
    {MissingFile, GarbageFile,
     JsonFile([jt |-> "number", n |-> 5]),
     JsonFile([jt |-> "array", items |-> <<>>]),
     JsonFile(Dumps(PyDict([power_mode |-> PyStr("Balanceado"), g_mode |-> PyBool(FALSE)]))),
     JsonFile(Dumps(Config(PyStr("Turbo"), PyBool(FALSE), PyDict(<<>>)))),
     JsonFile(Dumps(Config(PyStr("Performance"), PyInt(1), PyDict(<<>>)))),
     JsonFile(Dumps(Config(PyStr("Personalizado"), PyBool(FALSE),
                           PyDict([cpu_fan_boost |-> PyInt(101)])))),
     JsonFile(Dumps(Config(PyStr("Personalizado"), PyBool(FALSE),
                           PyDict([gpu_fan_boost |-> PyStr("50")])))),
     JsonFile(Dumps(Config(PyStr("Personalizado"), PyBool(TRUE),
                           PyDict([cpu_fan_boost |-> PyInt(100), gpu_fan_boost |-> PyInt(0),
                                   cpu_manual |-> PyBool(TRUE),
                                   gpu_manual |-> PyBool(FALSE)]))))}

InitLoad ==
    /\ InitFields
    /\ config_file \in FileContents
    /\ backup_file \in FileContents
    /\ threads = [th \in Threads |-> IdleThread]

\* the config file or the backup is rewritten from outside the daemon
Overwrite(primary, content) ==
    /\ last.kind = "load"
    /\ IF primary THEN config_file' = content /\ UNCHANGED backup_file
                  ELSE backup_file' = content /\ UNCHANGED config_file
    /\ last' = NoLast
    /\ UNCHANGED <<phase, current_mode, g_mode_active, manual_mode, current_fan_boosts,
                   manual_fan_control, pre_gmode_state, threads, nstarted, now,
                   default_config, client_requests, admitted, last_validate, acpi_call>>

NextLoad ==
    \/ Load
    \/ \E primary \in BOOLEAN, content \in FileContents : Overwrite(primary, content)

SpecLoad == InitLoad /\ [][NextLoad]_vars

-----------------------------------------------------------------------------
(* SpecSave: save() and load() of one ConfigManager called from concurrent   *)
(* threads, a statement at a time, in a process that can die at any moment   *)
(* and leave the files as they are.                                          *)

SaveFiles == {MissingFile, JsonFile(ConfigDoc("Balanceado", FALSE, 0, 0, FALSE, FALSE, TRUE))}

SaveInputs ==
    {Config(PyStr("Personalizado"), PyBool(TRUE),
            PyDict([cpu_fan_boost |-> PyInt(70), gpu_fan_boost |-> PyInt(0),
                    cpu_manual |-> PyBool(TRUE), gpu_manual |-> PyBool(FALSE)])),
     Config(PyStr("Performance"), PyBool(FALSE),
            PyDict([cpu_fan_boost |-> PyInt(0), gpu_fan_boost |-> PyInt(0),
                    cpu_manual |-> PyBool(FALSE), gpu_manual |-> PyBool(FALSE)])),
     Config(PyStr("Turbo"), PyBool(FALSE), PyDict([cpu_fan_boost |-> PyInt(0)]))}

InitSave ==
    /\ InitFields
    /\ config_file \in SaveFiles
    /\ backup_file = MissingFile
    /\ threads = [th \in Threads |-> IdleThread]

\* a thread enters save(config); io is how the file system answers it
StartSave(th, config, io) ==
    /\ threads[th].kind = "idle"
    /\ nstarted < MaxStarted
    /\ threads' = [threads EXCEPT ![th] = StartThread("save", config, io,
                                                      SaveFrame(config, "local"))]
    /\ nstarted' = nstarted + 1
    /\ UNCHANGED <<phase, current_mode, g_mode_active, manual_mode, current_fan_boosts,
                   manual_fan_control, pre_gmode_state, config_file, backup_file,
                   default_config, last, now, client_requests, admitted, last_validate, acpi_call>>

\* a thread enters load()
StartLoad(th) ==
    /\ threads[th].kind = "idle"
    /\ nstarted < MaxStarted
    /\ threads' = [threads EXCEPT ![th] = StartThread("load", <<>>, "ok", LoadFrame)]
    /\ nstarted' = nstarted + 1
    /\ UNCHANGED <<phase, current_mode, g_mode_active, manual_mode, current_fan_boosts,
                   manual_fan_control, pre_gmode_state, config_file, backup_file,
                   default_config, last, now, client_requests, admitted, last_validate, acpi_call>>

\* one statement of a running thread
StatementStep(th) ==
    /\ threads[th].kind # "idle"
    /\ LET w == Step(World(threads[th])) IN
       /\ Commit(w)
       /\ IF w.t.stack = <<>>
          THEN /\ threads' = [threads EXCEPT ![th] = IdleThread]
               /\ last' = LastOf(w)
          ELSE /\ threads' = [threads EXCEPT ![th] = w.t]
               /\ UNCHANGED last
    /\ UNCHANGED <<phase, nstarted, now, client_requests, admitted, last_validate>>

\* the process dies: its threads are gone, the files stay as they are
Crash ==
    /\ \E th \in Threads : threads[th].kind # "idle"
    /\ threads' = [th \in Threads |-> IdleThread]
    /\ last' = [NoLast EXCEPT !.kind = "crash"]
    /\ UNCHANGED <<phase, current_mode, g_mode_active, manual_mode, current_fan_boosts,
                   manual_fan_control, pre_gmode_state, config_file, backup_file,
                   default_config, nstarted, now, client_requests, admitted, last_validate,
                   acpi_call>>

NextSave ==
    \/ \E th \in Workers, config \in SaveInputs, io \in IOOutcomes : StartSave(th, config, io)
    \/ \E th \in Workers : StartLoad(th)
    \/ \E th \in Threads : StatementStep(th)
    \/ Crash
    \/ Tick

SpecSave == InitSave /\ [][NextSave]_vars

-----------------------------------------------------------------------------
(* SpecSensor: the sensor reads of the controller, against every answer of   *)
(* the hwmon files and of the ACPI interface.                                *)

\* no hwmon sensor, a failed hwmon read (0), a reading in range, a reading out of range
HwmonTemps == {PyNone, HwmonMiss, PyInt(0), PyInt(-5000), PyInt(55000), PyInt(130000)}
HwmonRpms == {PyNone, HwmonMiss, PyInt(0), PyInt(-1), PyInt(3000), PyInt(20000)}

SensorCalls ==
    {GctFrame(h, a) : h \in HwmonTemps, a \in AcpiAnswers}
    \cup {GgtFrame(h, a) : h \in HwmonTemps, a \in AcpiAnswers}
    \cup {GfrFrame(PyInt(i), h, a) : i \in {1, 2, 3}, h \in HwmonRpms, a \in AcpiAnswers}

\* codes and arguments of every form: hex literals, strings without the 0x prefix,
\* strings that start with 0x and go on with other characters
AcpiCodes == {"0x14", "0x15", "14", "0xZZ", "0x", ""}
AcpiArgLists ==
    {<<>>, <<"0x04">>, <<"0x04", "0x01">>, <<"4">>, <<"0x04", "1">>, <<"0xGG">>,
     <<"0x04", "0x1; rm">>, <<"0x01", "0xa0", "0x00", "0x00">>}
AcpiCalls ==
    {AcrFrame(c, a, r) : c \in AcpiCodes, a \in AcpiArgLists,
                         r \in {[st |-> "ok", text |-> "0x37"],
                                [st |-> "write_fails", text |-> ""]}}

InitSensor ==
    /\ InitFields
    /\ config_file = MissingFile
    /\ backup_file = MissingFile
    /\ threads = [th \in Threads |-> IdleThread]

NextSensor ==
    \/ Startup("ok")
    \/ \E frame \in SensorCalls : DirectCall(frame)
    \/ \E frame \in AcpiCalls : DirectCall(frame)

SpecSensor == InitSensor /\ [][NextSensor]_vars

-----------------------------------------------------------------------------
(* SpecBoot: the daemon from main() on.  The machine it starts on passes or  *)
(* fails each of the startup checks; once the socket is bound, requests and  *)
(* key presses are served one after the other.                               *)

Environments ==
    {Environment(euid, path, lsmod, modprobe, probe) :
        euid \in {0, 1000}, path \in BOOLEAN, lsmod \in {"loaded", "absent", "raises"},
        modprobe \in {"ok", "fails", "raises"}, probe \in {"ok", "fails"}}

InitBoot ==
    /\ InitFields
    /\ config_file \in {MissingFile,
                        JsonFile(ConfigDoc("Personalizado", FALSE, 70, 100, TRUE, TRUE, FALSE))}
    /\ backup_file = MissingFile
    /\ threads = [th \in Threads |-> IdleThread]

\* main(): G15DaemonServer() constructs the controller; start_server binds the socket
\* and serves.  A sys.exit during the construction ends the process.
Boot(env) ==
    /\ phase = "init"
    /\ LET w == Run(World(StartThread("boot", env, "ok", CtlInitFrame(env)))) IN
       /\ Commit(w)
       /\ last' = LastOf(w)
       /\ phase' = IF Exited(w) THEN "exited" ELSE "running"
    /\ UNCHANGED <<threads, nstarted, now, client_requests, admitted, last_validate>>

NextBoot ==
    \/ \E env \in Environments : Boot(env)
    \/ \E request \in SeqRequests : SeqRequest(request, "ok")
    \/ SeqKeyPress("ok")

SpecBoot == InitBoot /\ [][NextBoot]_vars

-----------------------------------------------------------------------------
(* SpecLive: accepted connections and their workers.  A worker waits in recv *)
(* until its client sends or closes; the scheduler runs every worker that    *)
(* can run, and nothing obliges a client to send or to close.                *)

LivePayloads ==
    {JsonPayload(PyDict([action |-> PyStr("get_power_mode")])),
     JsonPayload(PyDict([action |-> PyStr("set_power_mode"), mode |-> PyStr("Performance")])),
     JsonPayload(PyDict([mode |-> PyStr("Performance")])),
     JsonPayload(PyInt(5)), GarbagePayload, EmptyPayload}

InitLive ==
    /\ InitFields
    /\ config_file = MissingFile
    /\ backup_file = MissingFile
    /\ threads = [th \in Threads |-> IdleThread]

\* start_server: accept() and client_thread.start(); the worker enters recv
Accept(th, client_addr) ==
    /\ phase = "running"
    /\ threads[th].kind = "idle"
    /\ nstarted < MaxStarted
    /\ threads' = [threads EXCEPT ![th] =
                       StartThread("client", NoData, "ok", HcFrame(client_addr, NoData))]
    /\ nstarted' = nstarted + 1
    /\ UNCHANGED <<phase, current_mode, g_mode_active, manual_mode, current_fan_boosts,
                   manual_fan_control, pre_gmode_state, config_file, backup_file,
                   default_config, last, now, client_requests, admitted, last_validate, acpi_call>>

\* the worker t is in recv and nothing has arrived
InRecv(t) ==
    /\ Len(t.stack) = 1
    /\ t.stack[1].pc = "hc_810"
    /\ ~RecvReturns(t.stack[1].data)

\* the client of a waiting worker sends data, or closes its end (the empty payload)
ClientSends(th, data) ==
    /\ threads[th].kind = "client"
    /\ InRecv(threads[th])
    /\ threads' = [threads EXCEPT ![th].stack[1].data = data, ![th].request = data]
    /\ UNCHANGED <<phase, current_mode, g_mode_active, manual_mode, current_fan_boosts,
                   manual_fan_control, pre_gmode_state, config_file, backup_file,
                   default_config, last, nstarted, now, client_requests, admitted,
                   last_validate, acpi_call>>

\* one statement of a worker; in recv it waits for its client
Serve(th) ==
    /\ threads[th].kind = "client"
    /\ ~InRecv(threads[th])
    /\ LET w == Step(World(threads[th])) IN
       /\ Commit(w)
       /\ client_requests' = w.requests
       /\ IF w.t.stack = <<>>
          THEN /\ threads' = [threads EXCEPT ![th] = IdleThread]
               /\ last' = LastOf(w)
          ELSE /\ threads' = [threads EXCEPT ![th] = w.t]
               /\ UNCHANGED last
    /\ UNCHANGED <<phase, nstarted, now, admitted, last_validate>>

NextLive ==
    \/ Startup("ok")
    \/ \E th \in Workers, a \in Addresses : Accept(th, a)
    \/ \E th \in Workers, data \in LivePayloads : ClientSends(th, data)
    \/ \E th \in Workers : Serve(th)

\* every started thread that can run is run: the workers are threads of the interpreter
SpecLive == InitLive /\ [][NextLive]_vars /\ \A th \in Workers : WF_vars(Serve(th))

-----------------------------------------------------------------------------
(* SpecCommander: starts of the client program, on every machine and with    *)
(* the daemon's socket in every state.                                       *)

Sockets == {"absent", "refused", "silent", "served"}

InitCommander ==
    /\ InitFields
    /\ config_file = MissingFile
    /\ backup_file = MissingFile
    /\ threads = [th \in Threads |-> IdleThread]

\* G15ControllerInterface() at the start of the client program
ClientStart(socket, env) ==
    /\ LET request == [socket |-> socket, env |-> env]
           w == Run(World(StartThread("gui", request, "ok", GuiFrame(socket, env))))
       IN  last' = [LastOf(w) EXCEPT !.ret = IF Exited(w) THEN "exit" ELSE w.t.ret]
    /\ UNCHANGED <<phase, current_mode, g_mode_active, manual_mode, current_fan_boosts,
                   manual_fan_control, pre_gmode_state, config_file, backup_file,
                   default_config, threads, nstarted, now, client_requests, admitted,
                   last_validate, acpi_call>>

NextCommander == \E socket \in Sockets, env \in Environments : ClientStart(socket, env)

SpecCommander == InitCommander /\ [][NextCommander]_vars

-----------------------------------------------------------------------------
(* SpecFail: requests and key presses served one after the other while the   *)
(* file system lets the backup copy or the write of the config file fail.    *)

FailFiles ==
    {MissingFile, JsonFile(ConfigDoc("Personalizado", FALSE, 70, 100, TRUE, TRUE, FALSE))}

FailRequests ==
    {[action |-> PyStr("set_power_mode"), mode |-> PyStr("Performance")],
     [action |-> PyStr("set_fan_boost"), fan_id |-> PyInt(1), percentage |-> PyInt(70)],
     [action |-> PyStr("toggle_g_mode")]}

InitFail ==
    /\ InitFields
    /\ config_file \in FailFiles
    /\ backup_file = MissingFile
    /\ threads = [th \in Threads |-> IdleThread]

NextFail ==
    \/ Startup("ok")
    \/ \E request \in FailRequests, io \in IOOutcomes : SeqRequest(request, io)
    \/ \E io \in IOOutcomes : SeqKeyPress(io)

SpecFail == InitFail /\ [][NextFail]_vars

-----------------------------------------------------------------------------
(* SpecToken: requests served one after the other, each sent without token,  *)
(* with the token authenticate issues, or with a token nobody issued.        *)

\* the token field of a request: "" stands for a request without the field
Tokens == {"", SessionToken, "forged"}

\* request_data["token"] = self.session_token, as _send_request of the client adds it
WithToken(request, token) ==
    IF token = "" THEN request
    ELSE [k \in DOMAIN request \cup {"token"} |->
             IF k = "token" THEN PyStr(token) ELSE request[k]]

TokenRequests ==
    {[action |-> PyStr("authenticate")],
     [action |-> PyStr("get_power_mode")],
     [action |-> PyStr("set_power_mode"), mode |-> PyStr("Performance")],
     [action |-> PyStr("set_fan_boost"), fan_id |-> PyInt(1), percentage |-> PyInt(70)],
     [action |-> PyStr("toggle_g_mode")]}

InitToken ==
    /\ InitFields
    /\ config_file = MissingFile
    /\ backup_file = MissingFile
    /\ threads = [th \in Threads |-> IdleThread]

NextToken ==
    \/ Startup("ok")
    \/ \E request \in TokenRequests, token \in Tokens :
           SeqRequest(WithToken(request, token), "ok")

SpecToken == InitToken /\ [][NextToken]_vars

-----------------------------------------------------------------------------
(* SpecClient: connections served one after the other by handle_client,      *)
(* from recv to close, all within one rate-limit window.                     *)

\* what clients send: requests of every action family, requests the server refuses,
\* JSON values that are no objects, text that is no JSON, bytes that are no text
ClientPayloads ==
    {JsonPayload(PyDict(r)) :
        r \in {[action |-> PyStr("get_power_mode")],
               [action |-> PyStr("get_all_data")],
               [action |-> PyStr("authenticate")],
               [action |-> PyStr("set_power_mode"), mode |-> PyStr("Performance")],
               [action |-> PyStr("set_fan_boost"), fan_id |-> PyStr("1"),
                percentage |-> PyInt(101)],
               [action |-> PyStr("enable_g_mode")],
               [mode |-> PyStr("Performance")]}}
    \cup {JsonPayload(x) :
             x \in {PyList(<<PyStr("action")>>), PyList(<<>>), PyStr("action"), PyInt(5)}}
    \cup {GarbagePayload, NotUtf8Payload, EmptyPayload}

InitClient ==
    /\ InitFields
    /\ config_file = MissingFile
    /\ backup_file = MissingFile
    /\ threads = [th \in Threads |-> IdleThread]

\* one accepted connection, served by handle_client with no other handler running
Connection(client_addr, data) ==
    /\ phase = "running"
    /\ LET w == Run(World(StartThread("client", data, "ok", HcFrame(client_addr, data))))
       IN  /\ Commit(w)
           /\ client_requests' = w.requests
           /\ last' = LastOf(w)
    /\ UNCHANGED <<phase, threads, nstarted, now, admitted, last_validate>>

NextClient ==
    \/ Startup("ok")
    \/ \E a \in Addresses, data \in ClientPayloads : Connection(a, data)

SpecClient == InitClient /\ [][NextClient]_vars

-----------------------------------------------------------------------------
(* Observations shared by the claims                                         *)

ControllerOps ==
    {"set_power_mode", "set_fan_boost", "enable_g_mode", "disable_g_mode", "toggle_g_mode"}

\* the first statement of a controller method
EntryPc(fn) ==
    CASE fn = "set_power_mode" -> "spm_530"
      [] fn = "set_fan_boost" -> "sfb_545"
      [] fn = "enable_g_mode" -> "eg_571"
      [] fn = "disable_g_mode" -> "dg_591"
      [] fn = "toggle_g_mode" -> "tg_623"

\* thread t has executed a statement of a controller method that has not returned
InController(t) ==
    \E i \in 1..Len(t.stack) :
        /\ t.stack[i].fn \in ControllerOps
        /\ t.stack[i].pc # EntryPc(t.stack[i].fn)

\* no handler is running
Quiescent == phase = "running" /\ \A th \in Threads : threads[th].kind = "idle"

\* a direct call of a controller method on the state of w, run to its end
CallOn(w, frame) == Run([w EXCEPT !.t = StartThread("call", <<>>, "ok", frame)])

-----------------------------------------------------------------------------
(* C1: at most one controller operation (set_power_mode, set_fan_boost,      *)
(* enable_g_mode, disable_g_mode, toggle_g_mode) is in progress at any time, *)
(* whatever the number of worker threads and the key-listener thread.       *)
C1_OneOperationAtATime ==
    Cardinality({th \in Threads : InController(threads[th])}) <= 1

(* C2: after startup and any sequence of completed requests, a power mode    *)
(* other than Custom implies both fan boosts 0 and both manual flags false.  *)
C2_NonCustomHasNoBoost ==
    (phase = "running" /\ current_mode # "CUSTOM")
        => (current_fan_boosts = <<0, 0>> /\ manual_fan_control = <<FALSE, FALSE>>)

(* C3: whenever no controller operation is in progress, the pre-G-Mode       *)
(* snapshot exists if and only if G-Mode is active.                          *)
C3_SnapshotIffGMode ==
    Quiescent => ((pre_gmode_state # NoSnapshot) <=> g_mode_active)

(* C4: from any reachable state with G-Mode off and no operation in          *)
(* progress, enable_g_mode followed at once by disable_g_mode restores the   *)
(* mode, restores each fan's boost and manual flag when the mode was Custom, *)
(* and leaves the snapshot cleared.                                          *)
C4_GModeRoundTrip ==
    (Quiescent /\ ~g_mode_active) =>
        LET enabled == CallOn(World(IdleThread), EgFrame(TRUE))
            back == CallOn(enabled, DgFrame(TRUE))
        IN  /\ enabled.c.g_mode_active
            /\ back.c.current_mode = current_mode
            /\ current_mode = "CUSTOM" =>
                   /\ back.c.current_fan_boosts = current_fan_boosts
                   /\ back.c.manual_fan_control = manual_fan_control
            /\ back.c.pre_gmode_state = NoSnapshot

(* C5: at most RateLimit requests of one address are admitted in any window  *)
(* of RateWindow seconds: the 51st request within 10 seconds is rejected.    *)
C5_AtMostFiftyAdmitted ==
    \A a \in DOMAIN admitted :
        Len(SelectSeq(admitted[a], LAMBDA t : now - t < RateWindow)) <= RateLimit

(* C6: a well-formed request that arrives RateWindow seconds or more after   *)
(* the latest request of its address that passed the quota check is          *)
(* admitted, whatever was sent and rejected in between.                      *)
C6_RecoveryAfterWindow ==
    (/\ last_validate.kind = "call"
     /\ last_validate.wellformed
     /\ last_validate.at - last_validate.last_passed_at >= RateWindow)
        => last_validate.result

\* an address that was limited is admitted once the window has elapsed
C6_Witness ==
    /\ last_validate.kind = "call"
    /\ last_validate.wellformed
    /\ last_validate.after_limit
    /\ last_validate.last_passed_at >= 0
    /\ last_validate.at - last_validate.last_passed_at >= RateWindow
    /\ last_validate.result

\* process_request(request) on the current state, with no other handler running
Handle(request) == Run(World(StartThread("ipc", request, "ok", PrFrame(request))))

\* the request names no action of the nine the daemon serves
C7_Unlisted(request) ==
    LET action == Get(request, "action", PyStr("")) IN
    action \notin {PyStr(a) : a \in {"authenticate", "get_status", "get_temps", "get_fans",
                                    "get_power_mode", "get_all_data", "set_power_mode",
                                    "set_fan_boost", "toggle_g_mode"}}

(* C7: a request whose action is not one of the nine served actions is       *)
(* answered with the error "Unauthorized action"; processing it issues no    *)
(* ACPI call and leaves the controller state and the config files as they    *)
(* were.                                                                     *)
C7_UnlistedActionRejected ==
    phase = "running" =>
        \A request \in GateRequests :
            C7_Unlisted(request) =>
                LET w == Handle(request) IN
                /\ w.t.resp = [status |-> "error", message |-> "Unauthorized action"]
                /\ w.t.calls = <<>>
                /\ w.c = C
                /\ w.cm = CM

\* a request for enable_g_mode, which is a method and no action, was refused in
\* Custom mode with a saved config
C7_Witness ==
    /\ last.kind = "ipc"
    /\ last.request = [action |-> PyStr("enable_g_mode")]
    /\ last.resp = [status |-> "error", message |-> "Unauthorized action"]
    /\ last.calls = <<>>
    /\ current_mode = "CUSTOM"
    /\ ~g_mode_active
    /\ config_file.st = "json"

\* fan_id in [1, 2] and 0 <= percentage <= 100, as Python compares
C8_FanIdInRange(fan_id) == fan_id \in {PyInt(1), PyInt(2), PyBool(TRUE)}
C8_PercentageInRange(percentage) ==
    /\ percentage.kind \in {"int", "bool"}
    /\ IntOf(percentage) \in 0..100

(* C8: set_fan_boost with a fan id outside {1, 2} or a percentage outside    *)
(* 0..100 returns False, issues no ACPI call and leaves the controller state *)
(* and the config files as they were; get_fan_boost with a fan id outside    *)
(* {1, 2} returns 0 and issues no ACPI call.                                 *)
C8_InvalidFanParametersRejected ==
    phase = "running" =>
        /\ \A fan_id \in GateFanIds, percentage \in GatePercentages :
               (~C8_FanIdInRange(fan_id) \/ ~C8_PercentageInRange(percentage)) =>
                   LET w == CallOn(World(IdleThread), SfbFrame(fan_id, percentage, TRUE, TRUE))
                   IN  /\ w.t.ret = FALSE
                       /\ w.t.calls = <<>>
                       /\ w.c = C
                       /\ w.cm = CM
        /\ \A fan_id \in GateFanIds :
               ~C8_FanIdInRange(fan_id) =>
                   LET w == CallOn(World(IdleThread), GfbFrame(fan_id))
                   IN  /\ w.t.ret = 0
                       /\ w.t.calls = <<>>
                       /\ w.c = C

\* set_fan_boost(3, 100) was refused while fan 1 ran at boost 100
C8_Witness ==
    /\ last.kind = "call"
    /\ last.request = SfbFrame(PyInt(3), PyInt(100), TRUE, TRUE)
    /\ last.ret = FALSE
    /\ last.calls = <<>>
    /\ current_fan_boosts = <<100, 0>>
    /\ manual_fan_control = <<TRUE, FALSE>>

Without(d, k) == PyDict([j \in DOMAIN d.v \ {k} |-> d.v[j]])

\* the schema of the persisted config: the required fields, a power mode of the
\* closed set, a boolean g_mode, boosts in 0..100
C10_SchemaValid(cfg) ==
    /\ {"power_mode", "g_mode", "fan_profiles"} \subseteq DOMAIN cfg.v
    /\ cfg.v["power_mode"] \in {PyStr("Silencioso"), PyStr("Balanceado"),
                                PyStr("Performance"), PyStr("Personalizado")}
    /\ cfg.v["g_mode"] \in {PyBool(TRUE), PyBool(FALSE)}
    /\ cfg.v["fan_profiles"].kind = "dict"
    /\ \A fan \in {"cpu_fan_boost", "gpu_fan_boost"} \cap DOMAIN cfg.v["fan_profiles"].v :
           LET boost == cfg.v["fan_profiles"].v[fan] IN
           boost.kind \in {"int", "bool"} /\ IntOf(boost) \in 0..100

(* C10: for every schema-valid config cfg, in every state of the files,      *)
(* save(cfg) returns True when its file operations succeed, and a load()     *)
(* that follows returns a config equal to cfg in every field but last_saved. *)
C10_ConfigRoundTrip ==
    \A cfg \in ConfigInputs :
        C10_SchemaValid(cfg) =>
            LET saved == Run(World(StartThread("save", cfg, "ok", SaveFrame(cfg, "local"))))
                loaded == Run([saved EXCEPT !.t = StartThread("load", <<>>, "ok", LoadFrame)])
            IN  /\ saved.t.ret = TRUE
                /\ loaded.t.ret.kind = "dict"
                /\ Without(loaded.t.ret, "last_saved") = Without(cfg, "last_saved")

\* a load() returned the Custom config that a save() at time TickSeconds had written
\* over an older file
C10_Witness ==
    /\ last.kind = "load"
    /\ Without(last.ret, "last_saved") =
           Config(PyStr("Personalizado"), PyBool(TRUE),
                  PyDict([cpu_fan_boost |-> PyInt(70), gpu_fan_boost |-> PyInt(0),
                          cpu_manual |-> PyBool(TRUE), gpu_manual |-> PyBool(FALSE)]))
    /\ last.ret.v["last_saved"] = PyStr(Isoformat(TickSeconds))
    /\ config_file.st = "json"
    /\ backup_file.st = "json"

\* config_manager.load() on the current state of the files
LoadNow == Run(World(StartThread("load", <<>>, "ok", LoadFrame)))

(* C11: when the config file holds text that is no JSON and the backup file  *)
(* holds a valid config, load() returns the content of the backup and the    *)
(* config file is the backup's copy afterwards.                              *)
C11_BackupRecovery ==
    (/\ config_file.st = "garbage"
     /\ backup_file.st = "json"
     /\ C10_SchemaValid(Loads(backup_file.doc)))
        => /\ LoadNow.t.ret = Loads(backup_file.doc)
           /\ LoadNow.cm.config_file = backup_file
           /\ LoadNow.cm.backup_file = backup_file

\* a load() restored the Custom config from the backup and returned it
C11_Witness ==
    /\ last.kind = "load"
    /\ last.log = <<"restore from backup">>
    /\ backup_file.st = "json"
    /\ config_file = backup_file
    /\ last.ret = Loads(backup_file.doc)
    /\ last.ret.v["power_mode"] = PyStr("Personalizado")

\* the configs a save() of SpecSave can have written, at any time of the clock
C12_Generations ==
    SaveFiles \cup
    {JsonFile(Dumps(SetItem(cfg, "last_saved", PyStr(Isoformat(t))))) :
         cfg \in SaveInputs \cup {DefaultConfig}, t \in 0..MaxNow}

(* C12: at every step of save(), also with other saves and loads running     *)
(* and when the process dies between two steps, the config file is absent    *)
(* as before the first save or holds one complete config: the generation it  *)
(* held or one a save() wrote; it is never a partially written file.         *)
C12_PrimaryNeverPartial ==
    /\ config_file.st # "partial"
    /\ config_file \in C12_Generations

\* a save() has written its temporary file and not replaced the config file yet,
\* while another thread is inside save() or load()
C12_Witness ==
    /\ \E th \in Workers :
           /\ threads[th].kind = "save"
           /\ Top([t |-> threads[th]]).pc = "save_197"
           /\ Top([t |-> threads[th]]).tmp.st = "json"
           /\ config_file # Top([t |-> threads[th]]).tmp
    /\ \E th \in Workers : threads[th].kind = "load"
    /\ backup_file.st = "json"

(* C13: with no hwmon sensor, get_cpu_temp() issues the ACPI read, and when   *)
(* that read fails (the ACPI interface cannot be written or read) it returns *)
(* exactly 45.                                                               *)
C13_CpuTempFallback ==
    (/\ last.kind = "call"
     /\ last.request.fn = "get_cpu_temp"
     /\ last.request.hwmon = PyNone
     /\ last.request.acpi.st \in {"write_fails", "read_fails"})
        => last.ret = 45

\* a response of the closed shape {status: success|error, data?, message?, token?}
C14_WellFormed(response) ==
    /\ DOMAIN response \subseteq {"status", "data", "message", "token"}
    /\ "status" \in DOMAIN response
    /\ response.status \in {"success", "error"}

\* C14: on every connection on which the client sent a non-empty payload, the worker
\* has written exactly one response of the closed shape and has closed the connection.
C14_SingleResponse ==
    (last.kind = "client" /\ last.request.st # "empty")
        => /\ Len(last.sent) = 1
           /\ C14_WellFormed(last.sent[1])
           /\ last.closed

\* a 0x-prefixed hex literal: 0x followed by one or more hex digits
C15_HexLiteral(s) ==
    /\ StartsWith(s, "0x")
    /\ Len(s) > 2
    /\ \A i \in 3..Len(s) :
           SubSeq(s, i, i) \in {"0", "1", "2", "3", "4", "5", "6", "7", "8", "9",
                                "a", "b", "c", "d", "e", "f", "A", "B", "C", "D", "E", "F"}

\* C15: an ACPI call whose code or one of whose arguments is not a 0x-prefixed hex
\* literal is rejected: it returns "0x0" and nothing is written to the ACPI interface.
C15_AcpiArgumentsValidated ==
    (/\ last.kind = "call" /\ last.request.fn = "_acpi_call_real"
     /\ \/ ~C15_HexLiteral(last.request.wmi_code)
        \/ \E i \in 1..Len(last.request.args) : ~C15_HexLiteral(last.request.args[i]))
        => /\ last.calls = <<>>
           /\ last.ret = "0x0"

\* every startup precondition: elevated privileges, the ACPI call path, the kernel
\* module loaded or loadable, the write probe
C16_Preconditions(env) ==
    /\ env.euid = 0
    /\ env.acpi_call_path
    /\ env.lsmod = "loaded" \/ (env.lsmod = "absent" /\ env.modprobe = "ok")
    /\ env.probe = "ok"

\* C16: the daemon comes to serve only by a startup on which every precondition
\* succeeded; a startup with a failed precondition ends the process, and a request or
\* key press is handled only while the daemon serves.
C16_FatalStartupPreconditions ==
    [][/\ (phase # "running" /\ phase' = "running")
            => (last'.kind = "boot" /\ C16_Preconditions(last'.request))
       /\ (last'.kind = "boot" /\ ~C16_Preconditions(last'.request)) => phase' = "exited"
       /\ (last' # last /\ last'.kind \in {"ipc", "key"}) => phase = "running"
       /\ phase = "exited" => phase' = "exited"]_vars

\* a startup that failed at the write probe alone has ended the process
C16_Witness ==
    /\ phase = "exited" /\ last.kind = "boot"
    /\ last.request.euid = 0 /\ last.request.acpi_call_path
    /\ last.request.lsmod = "absent" /\ last.request.modprobe = "ok"
    /\ last.request.probe = "fails"

\* the last handler that finished was a mutation that succeeded
C17_Mutated ==
    \/ last.kind = "key"
    \/ /\ last.kind = "ipc"
       /\ last.request.action.v \in {"set_power_mode", "set_fan_boost", "toggle_g_mode"}
       /\ last.resp.status = "success"

\* the persisted fields of a config document, and the same fields of the controller
C17_Persisted(config) ==
    <<config.v.power_mode, config.v.g_mode,
      config.v.fan_profiles.v.cpu_fan_boost, config.v.fan_profiles.v.gpu_fan_boost,
      config.v.fan_profiles.v.cpu_manual, config.v.fan_profiles.v.gpu_manual>>
C17_InMemory ==
    <<PyStr(ModeLabel(current_mode)), PyBool(g_mode_active),
      PyInt(current_fan_boosts[1]), PyInt(current_fan_boosts[2]),
      PyBool(manual_fan_control[1]), PyBool(manual_fan_control[2])>>

\* C17: when every handler has finished and the last one was a successful mutation,
\* the persisted config holds the power mode, G-Mode flag, fan boosts and manual
\* flags of the controller, also when the handlers ran concurrently.
C17_PersistedTracksMemory ==
    (Quiescent /\ C17_Mutated)
        => /\ config_file.st = "json"
           /\ C17_Persisted(Loads(config_file.doc)) = C17_InMemory

\* C18: the worker of every accepted connection eventually closes the connection and
\* terminates, whatever its client does.
C18_WorkersTerminate ==
    \A th \in Workers : (threads[th].kind = "client") ~> (threads[th].kind = "idle")

\* C19: a client started while the daemon's socket is absent or unreachable makes no
\* ACPI access of its own and does not work in direct mode.
C19_NoDirectAccess ==
    (last.kind = "gui" /\ last.request.socket \in {"absent", "refused"})
        => /\ last.calls = <<>>
           /\ last.ret # "direct"

\* what a handler leaves when it runs on the current state with the file system
\* answering io: the response, the controller's fields and the ACPI calls
C20_Outcome(kind, request, frame, io) ==
    LET w == Run(World(StartThread(kind, request, io, frame)))
    IN  [resp |-> w.t.resp, c |-> w.c, calls |-> w.t.calls]

\* C20: a mutating operation whose config save fails completes as it does when the
\* save succeeds: the same ACPI calls are issued, the in-memory state is the same and
\* the client receives the same success response.
C20_PersistenceBestEffort ==
    phase = "running" =>
        \A io \in IOOutcomes :
            /\ \A request \in FailRequests :
                   /\ C20_Outcome("ipc", request, PrFrame(request), io)
                          = C20_Outcome("ipc", request, PrFrame(request), "ok")
                   /\ C20_Outcome("ipc", request, PrFrame(request), io).resp
                          = [status |-> "success"]
            /\ C20_Outcome("key", <<>>, KeyFrame, io) = C20_Outcome("key", <<>>, KeyFrame, "ok")

\* the state a config holds, read as _load_and_apply_config reads it: a boost that
\* is absent counts as 0, a manual flag that is absent (the default config has none)
\* as False
C20_Persisted(config) ==
    LET fan_profiles == config.v.fan_profiles.v IN
    <<config.v.power_mode, config.v.g_mode,
      Get(fan_profiles, "cpu_fan_boost", PyInt(0)), Get(fan_profiles, "gpu_fan_boost", PyInt(0)),
      Get(fan_profiles, "cpu_manual", PyBool(FALSE)),
      Get(fan_profiles, "gpu_manual", PyBool(FALSE))>>

\* a request answered with success whose save failed: the file was not replaced and
\* holds another state than the controller
C20_Witness ==
    /\ last.kind = "ipc" /\ last.io = "write_fails"
    /\ last.resp = [status |-> "success"]
    /\ last.calls # <<>>
    /\ config_file.st = "json"
    /\ C20_Persisted(Loads(config_file.doc)) # C17_InMemory

\* what process_request leaves when it serves request on the current state: the
\* response, the controller's fields, the config files and the ACPI calls
C21_Outcome(request) ==
    LET w == Run(World(StartThread("ipc", request, "ok", PrFrame(request))))
    IN  [resp |-> w.t.resp, c |-> w.c, cm |-> w.cm, calls |-> w.t.calls]

\* C21: in every state of the daemon and for every request, the response and the
\* resulting state are the same whether the request carries no token, the token
\* authenticate issues, or a token that was never issued.
C21_TokensNotEnforced ==
    phase = "running" =>
        \A request \in TokenRequests, token \in Tokens :
            C21_Outcome(WithToken(request, token)) = C21_Outcome(request)

\* a mutation sent with a token nobody issued was served with success
C21_Witness ==
    /\ last.kind = "ipc"
    /\ "token" \in DOMAIN last.request /\ last.request.token = PyStr("forged")
    /\ last.request.action = PyStr("set_power_mode")
    /\ last.resp = [status |-> "success"]
    /\ current_mode = "PERFORMANCE"

\* C22: whatever the hwmon sensor and the ACPI interface answer, get_cpu_temp and
\* get_gpu_temp return an integer in 0..120 and get_fan_rpm of fan 1 or 2 returns an
\* integer in 0..10000; none of them ends by an exception.
C22_BoundedSensorReadings ==
    /\ (last.kind = "call" /\ last.request.fn \in {"get_cpu_temp", "get_gpu_temp"})
           => last.ret \in 0..120
    /\ (last.kind = "call" /\ last.request.fn = "get_fan_rpm"
           /\ last.request.fan_id \in {PyInt(1), PyInt(2)})
           => last.ret \in 0..10000

\* a read with no usable hwmon value and an ACPI answer above the range returned the
\* default
C22_Witness ==
    /\ last.kind = "call" /\ last.request.fn = "get_gpu_temp"
    /\ last.request.hwmon = PyInt(130000)
    /\ last.request.acpi = [st |-> "ok", text |-> "0xff"]
    /\ last.ret = 50

\* the schema the claim spells out: the required fields, a power mode of the closed
\* set, a boolean g_mode, and every boost the fan profiles carry an integer in 0..100
C23_Schema(cfg) ==
    /\ cfg.kind = "dict"
    /\ {"power_mode", "g_mode", "fan_profiles"} \subseteq DOMAIN cfg.v
    /\ cfg.v["power_mode"] \in {PyStr("Silencioso"), PyStr("Balanceado"),
                                PyStr("Performance"), PyStr("Personalizado")}
    /\ cfg.v["g_mode"] \in {PyBool(TRUE), PyBool(FALSE)}
    /\ cfg.v["fan_profiles"].kind = "dict" =>
           \A fan \in {"cpu_fan_boost", "gpu_fan_boost"} \cap DOMAIN cfg.v["fan_profiles"].v :
               LET boost == cfg.v["fan_profiles"].v[fan] IN
               boost.kind \in {"int", "bool"} /\ IntOf(boost) \in 0..100

(* C23: for every content of the config file and of the backup, load()       *)
(* returns (it never raises) the defaults or a config that passes the        *)
(* schema; a file that is JSON and fails the schema is discarded for the     *)
(* defaults.                                                                 *)
C23_LoadReturnsValidated ==
    LET w == LoadNow
        defaults == w.cm.default_config
    IN  /\ Len(w.t.stack) = 0
        /\ w.t.ret = defaults \/ C23_Schema(w.t.ret)
        /\ (config_file.st = "json" /\ ~C23_Schema(Loads(config_file.doc)))
               => w.t.ret = defaults

\* a load() found a JSON file with a boost of 101 and returned the defaults, while the
\* backup held a valid config
C23_Witness ==
    /\ last.kind = "load"
    /\ config_file.st = "json"
    /\ Loads(config_file.doc).kind = "dict"
    /\ ~C23_Schema(Loads(config_file.doc))
    /\ backup_file.st = "json"
    /\ C23_Schema(Loads(backup_file.doc))
    /\ last.ret = default_config

\* the restores from the backup that a call of load() performed
C24_Restores(w) ==
    Cardinality({i \in DOMAIN w.t.log : w.t.log[i] = "restore from backup"})

(* C24: for every content of the two files, load() copies the backup over    *)
(* the config file at most once and re-runs itself at most once before it    *)
(* returns.                                                                  *)
C24_RetriesAtMostOnce ==
    LET w == LoadNow IN
    /\ Len(w.t.stack) = 0
    /\ C24_Restores(w) <= 1

\* the handler that ran last wrote the controller's state with _save_current_config
C25_Saved ==
    /\ phase = "running"
    /\ \/ last.kind = "key"
       \/ /\ last.kind = "ipc"
          /\ last.request.action.v \in {"set_power_mode", "set_fan_boost", "toggle_g_mode"}
          /\ last.resp.status = "success"
    /\ config_file.st = "json"

\* the daemon restarted on the current files: a controller with the fields __init__
\* gives it runs _load_and_apply_config
C25_Restarted ==
    LET w == World(StartThread("startup", <<>>, "ok", LacFrame)) IN
    Run([w EXCEPT !.c.current_mode = "BALANCED", !.c.g_mode_active = FALSE,
                  !.c.manual_mode = FALSE, !.c.current_fan_boosts = <<0, 0>>,
                  !.c.manual_fan_control = <<FALSE, FALSE>>,
                  !.c.pre_gmode_state = NoSnapshot]).c

\* the mode, G-Mode flag, boosts and manual flags of a config, and of a controller
C25_Fields(config) ==
    [power_mode |-> config.v.power_mode, g_mode |-> config.v.g_mode,
     boosts |-> <<config.v.fan_profiles.v.cpu_fan_boost,
                  config.v.fan_profiles.v.gpu_fan_boost>>,
     manual |-> <<config.v.fan_profiles.v.cpu_manual,
                  config.v.fan_profiles.v.gpu_manual>>]
C25_FieldsOf(c) ==
    [power_mode |-> PyStr(ModeLabel(c.current_mode)), g_mode |-> PyBool(c.g_mode_active),
     boosts |-> <<PyInt(c.current_fan_boosts[1]), PyInt(c.current_fan_boosts[2])>>,
     manual |-> <<PyBool(c.manual_fan_control[1]), PyBool(c.manual_fan_control[2])>>]

(* C25: whenever the running controller has persisted its state, a daemon    *)
(* restarted on that config file ends startup with the mode, G-Mode flag,    *)
(* fan boosts and manual flags that the file holds.                          *)
C25_RestartRoundTrip ==
    C25_Saved => C25_FieldsOf(C25_Restarted) = C25_Fields(Loads(config_file.doc))

(* C26: in every state of the running daemon, set_power_mode(CUSTOM), with   *)
(* or without saving, returns True having issued no hardware call; it sets   *)
(* the current mode to Custom and the manual-mode flag, and leaves the fan   *)
(* boosts, the per-fan manual flags, the G-Mode flag and the pre-G-Mode      *)
(* snapshot as they were.                                                    *)
C26_CustomIsSoftwareOnly ==
    phase = "running" =>
        \A save_config \in BOOLEAN :
            LET w == CallOn(World(IdleThread), SpmFrame("CUSTOM", save_config)) IN
            /\ w.t.ret = TRUE
            /\ w.t.calls = <<>>
            /\ w.c = [C EXCEPT !.current_mode = "CUSTOM", !.manual_mode = TRUE]

\* a set_power_mode request for Custom was served, without a hardware call, while
\* G-Mode was active, a snapshot was held and fan 1 had a boost
C26_Witness ==
    /\ last.kind = "ipc"
    /\ last.request.action = PyStr("set_power_mode")
    /\ last.request.mode = PyStr("Personalizado")
    /\ last.resp.status = "success"
    /\ last.calls = <<>>
    /\ current_mode = "CUSTOM"
    /\ g_mode_active
    /\ pre_gmode_state # NoSnapshot
    /\ current_fan_boosts[1] > 0
    /\ manual_fan_control[1]

\* the two commands of enabling G-Mode, in the order of the claim
C27_FlagThenModeByte ==
    <<[code |-> "0x25", args |-> <<"0x01", "0x01", "0x00", "0x00">>],
      [code |-> "0x15", args |-> <<"0x01", "0xab", "0x00", "0x00">>]>>

(* C27: enable_g_mode issues exactly two hardware calls, the G-Mode flag     *)
(* toggle (0x25, 0x01 0x01) first and the mode-byte override (0x15, 0x01     *)
(* 0xab) second, in the daemon of src/src and in the daemon of src alike.    *)
C27_EnableCallOrder ==
    /\ \A save_config \in BOOLEAN :
           CallOn(World(IdleThread), EgFrame(save_config)).t.calls = C27_FlagThenModeByte
    /\ (last.kind = "call" /\ last.request.fn = "enable_g_mode")
           => last.calls = C27_FlagThenModeByte

\* a hardware call with its padding
C28_Call(code, args) == [code |-> code, args |-> PadArgs(args)]

\* the calls that replay the boosts of the fans that the snapshot holds as manual
C28_BoostReplay(snapshot) ==
    LET boost(fan) ==
            IF snapshot.manual_control[fan]
            THEN <<C28_Call("0x15", <<"0x02", SensorId(fan), Hex02X(snapshot.fan_boosts[fan])>>)>>
            ELSE <<>>
    IN  boost(1) \o boost(2)

\* the calls and the controller that the claim expects of disable_g_mode on controller c
C28_ExpectedCalls(c) ==
    IF c.pre_gmode_state = NoSnapshot
    THEN <<C28_Call("0x25", <<"0x01", "0x00">>),
           C28_Call("0x15", <<"0x01", ModeCode(c.current_mode)>>)>>
    ELSE <<C28_Call("0x25", <<"0x01", "0x00">>), C28_Call("0x15", <<"0x01", "0xa0">>)>>
         \o (IF c.pre_gmode_state.mode = "CUSTOM" THEN C28_BoostReplay(c.pre_gmode_state)
             ELSE <<C28_Call("0x15", <<"0x01", ModeCode(c.pre_gmode_state.mode)>>)>>)
C28_ExpectedController(c) ==
    LET s == c.pre_gmode_state
        replayed(fan) == s.mode = "CUSTOM" /\ s.manual_control[fan]
    IN  IF s = NoSnapshot THEN [c EXCEPT !.g_mode_active = FALSE]
        ELSE [current_mode |-> s.mode,
              manual_mode |-> (s.mode = "CUSTOM"),
              g_mode_active |-> FALSE,
              pre_gmode_state |-> NoSnapshot,
              current_fan_boosts |->
                  [fan \in {1, 2} |->
                      IF s.mode # "CUSTOM" THEN 0
                      ELSE IF replayed(fan) THEN s.fan_boosts[fan]
                      ELSE c.current_fan_boosts[fan]],
              manual_fan_control |->
                  [fan \in {1, 2} |->
                      IF s.mode # "CUSTOM" THEN FALSE
                      ELSE IF replayed(fan) THEN s.fan_boosts[fan] > 0
                      ELSE c.manual_fan_control[fan]]]

\* in the run of disable_g_mode from w on, the statement that clears the snapshot
\* comes after the last hardware call and the last change of mode and fans
RECURSIVE C28_ClearsSnapshotLast(_)
C28_ClearsSnapshotLast(w) ==
    IF w.t.stack = <<>> THEN TRUE
    ELSE LET n == Step(w) IN
         /\ (w.c.pre_gmode_state # NoSnapshot /\ n.c.pre_gmode_state = NoSnapshot)
                => /\ n.t.calls = Run(n).t.calls
                   /\ n.c = Run(n).c
         /\ C28_ClearsSnapshotLast(n)

(* C28: in every state of the running daemon disable_g_mode issues the       *)
(* flag-off call first; with a snapshot it then writes the Balanced mode     *)
(* byte, replays the snapshotted mode, replays the boost of each fan that    *)
(* was manual if that mode was Custom, and clears the snapshot after all of  *)
(* that; without a snapshot it issues one further call, with the byte of     *)
(* the current mode, and changes no mode, boost or manual flag.              *)
C28_DisableSequence ==
    phase = "running" =>
        \A save_config \in BOOLEAN :
            LET start == [World(IdleThread) EXCEPT
                             !.t = StartThread("call", <<>>, "ok", DgFrame(save_config))]
                w == Run(start)
            IN  /\ w.t.ret = TRUE
                /\ w.t.calls = C28_ExpectedCalls(C)
                /\ w.c = C28_ExpectedController(C)
                /\ C28_ClearsSnapshotLast(start)

\* a toggle_g_mode request disabled G-Mode on a snapshot of Custom with fan 1 manual:
\* flag off, Balanced, the boost of fan 1, and the snapshot cleared
C28_Witness ==
    /\ last.kind = "ipc"
    /\ last.request.action = PyStr("toggle_g_mode")
    /\ last.calls = <<C28_Call("0x25", <<"0x01", "0x00">>),
                      C28_Call("0x15", <<"0x01", "0xa0">>),
                      C28_Call("0x15", <<"0x02", "0x32", "0x46">>)>>
    /\ ~g_mode_active
    /\ current_mode = "CUSTOM"
    /\ current_fan_boosts[1] = 70
    /\ pre_gmode_state = NoSnapshot

\* a byte as 0x and two upper-case hexadecimal digits
C29_Digit(d) ==
    <<"0", "1", "2", "3", "4", "5", "6", "7", "8", "9", "A", "B", "C", "D", "E", "F">>[d + 1]
C29_HexByte(n) == "0x" \o C29_Digit(n \div 16) \o C29_Digit(n % 16)

\* every call of a list carries four arguments
C29_FourArguments(calls) == \A i \in DOMAIN calls : Len(calls[i].args) = 4

(* C29: for every fan id in {1, 2} and every percentage in 0..100,           *)
(* set_fan_boost issues exactly one ACPI command: code 0x15 with the four    *)
(* arguments 0x02, 0x32 + (fan id - 1), the percentage as a hex byte, and    *)
(* the pad 0x00.  Every command that startup, a request (reads included) or  *)
(* a direct call issues carries exactly four arguments.                      *)
C29_FanBoostEncoding ==
    phase = "running" =>
        /\ \A fan_id \in {1, 2}, percentage \in 0..100 :
               LET w == CallOn(World(IdleThread),
                               SfbFrame(PyInt(fan_id), PyInt(percentage), FALSE, TRUE))
               IN  /\ w.t.ret = TRUE
                   /\ w.t.calls =
                          <<[code |-> "0x15",
                             args |-> <<"0x02", IF fan_id = 1 THEN "0x32" ELSE "0x33",
                                        C29_HexByte(percentage), "0x00">>]>>
        /\ C29_FourArguments(last.calls)
        /\ \A action \in {"get_status", "get_temps", "get_fans", "get_all_data",
                            "toggle_g_mode"} :
               C29_FourArguments(Handle([action |-> PyStr(action)]).t.calls)

\* a set_fan_boost request for fan 1 at 100 % was served with the one command
\* 0x15 {0x02, 0x32, 0x64, 0x00}
C29_Witness ==
    /\ last.kind = "ipc"
    /\ last.request = [action |-> PyStr("set_fan_boost"), fan_id |-> PyInt(1),
                       percentage |-> PyInt(100)]
    /\ last.resp.status = "success"
    /\ last.calls = <<[code |-> "0x15", args |-> <<"0x02", "0x32", "0x64", "0x00">>]>>
    /\ current_fan_boosts[1] = 100

\* the hardware calls of a list that write the mode byte: code 0x15, sub-function 0x01
C30_IsModeWrite(call) == call.code = "0x15" /\ call.args[1] = "0x01"
C30_ModeWrites(calls) == SelectSeq(calls, C30_IsModeWrite)

(* C30: whenever G-Mode is active and no handler is running, the mode byte   *)
(* written to the hardware last is the G-Mode override 0xab: a handler that  *)
(* ends with G-Mode active and wrote a mode byte wrote 0xab last.            *)
C30_GModeOverrideKept ==
    (phase = "running" /\ g_mode_active /\ C30_ModeWrites(last.calls) # <<>>)
        => C30_ModeWrites(last.calls)[Len(C30_ModeWrites(last.calls))].args[2] = "0xab"

\* the statement that w executes next replaces the config file (os.replace of save)
C31_Writes(w) == w.t.stack # <<>> /\ Top(w).fn = "save" /\ Top(w).pc = "save_197"

\* the writes of the config file in the run from w on
RECURSIVE C31_WriteCount(_)
C31_WriteCount(w) ==
    IF w.t.stack = <<>> THEN 0
    ELSE (IF C31_Writes(w) THEN 1 ELSE 0) + C31_WriteCount(Step(w))

\* in the run from w on, every write of the config file holds the controller state
\* of the end of the run and comes after the last hardware call
RECURSIVE C31_WritesFinalState(_)
C31_WritesFinalState(w) ==
    IF w.t.stack = <<>> THEN TRUE
    ELSE /\ C31_Writes(w) =>
               /\ w.c = Run(w).c
               /\ w.t.calls = Run(w).t.calls
               /\ C25_Fields(Loads(Top(w).tmp.doc)) = C25_FieldsOf(Run(w).c)
         /\ C31_WritesFinalState(Step(w))

\* in the run from w on, no write of the config file is made under a frame of a
\* controller mutator
RECURSIVE C31_NoWriteInMutator(_)
C31_NoWriteInMutator(w) ==
    IF w.t.stack = <<>> THEN TRUE
    ELSE /\ C31_Writes(w) =>
               \A i \in DOMAIN w.t.stack : w.t.stack[i].fn \notin ControllerOps
         /\ C31_NoWriteInMutator(Step(w))

\* the triggers of a mutation: the three mutating requests and the hotkey
C31_Triggers ==
    {StartThread("ipc", request, "ok", PrFrame(request)) :
         request \in {r \in SeqRequests :
                          r.action.v \in {"set_power_mode", "set_fan_boost", "toggle_g_mode"}}}
    \cup {StartThread("key", <<>>, "ok", KeyFrame)}

(* C31: in every state of the running daemon, a set_power_mode, set_fan_boost *)
(* or toggle_g_mode request and a hotkey press write the config file at most *)
(* once, after the last state change and the last hardware call, so the file *)
(* holds the final mode, G-Mode flag, boosts and manual flags (g_mode false  *)
(* and the restored state after a disable); a startup on the current files   *)
(* makes no write from within set_power_mode, enable_g_mode or               *)
(* set_fan_boost.                                                            *)
C31_NoTransientPersisted ==
    phase = "running" =>
        /\ \A t \in C31_Triggers :
               LET start == World(t) IN
               /\ C31_WriteCount(start) <= 1
               /\ C31_WritesFinalState(start)
        /\ C31_NoWriteInMutator(
               [World(StartThread("startup", <<>>, "ok", LacFrame)) EXCEPT
                    !.c.current_mode = "BALANCED", !.c.g_mode_active = FALSE,
                    !.c.manual_mode = FALSE, !.c.current_fan_boosts = <<0, 0>>,
                    !.c.manual_fan_control = <<FALSE, FALSE>>,
                    !.c.pre_gmode_state = NoSnapshot])

\* a toggle_g_mode request disabled G-Mode and restored Custom with the boost of
\* fan 1; the file it wrote holds g_mode false, Custom and the boost
C31_Witness ==
    /\ last.kind = "ipc"
    /\ last.request.action = PyStr("toggle_g_mode")
    /\ Len(last.calls) = 3
    /\ ~g_mode_active
    /\ config_file.st = "json"
    /\ C25_Fields(Loads(config_file.doc)) =
           [power_mode |-> PyStr("Personalizado"), g_mode |-> PyBool(FALSE),
            boosts |-> <<PyInt(70), PyInt(0)>>, manual |-> <<PyBool(TRUE), PyBool(FALSE)>>]

\* a press of the vendor key: a key event (type 1) of code 148 with value 1
C32_PressEdge(ev) == ev.len = 24 /\ ev.type = 1 /\ ev.code = 148 /\ ev.value = 1

(* C32: each input event the listener reads starts the callback exactly once *)
(* if it is a key event of code 148 with value 1, and not at all if it is a  *)
(* release, an auto-repeat, an event of another key or type, or a short      *)
(* read.                                                                     *)
C32_CallbackOncePerPress ==
    [][(last'.kind \in {"key", "event"} /\ phase = "running")
           => /\ C32_PressEdge(last'.request) => (nstarted' = nstarted + 1 /\ last'.kind = "key")
              /\ ~C32_PressEdge(last'.request)
                     => (nstarted' = nstarted /\ last'.kind = "event" /\ C' = C)]_vars

\* the second press was read and its callback switched G-Mode off again
C32_Witness ==
    /\ last.kind = "key"
    /\ last.request = [len |-> 24, type |-> 1, code |-> 148, value |-> 1]
    /\ nstarted = 2
    /\ ~g_mode_active
    /\ Len(last.calls) >= 2

(* C33: the sections of every get_all_data response are taken from one state *)
(* of the controller, also while mutations run in other workers: the G-Mode  *)
(* flag of the power section equals the one of the status section.           *)
C33_ConsistentSnapshot ==
    (last.kind = "ipc" /\ last.request = [action |-> PyStr("get_all_data")])
        => last.resp.data.power.g_mode = last.resp.data.status.g_mode_active

\* the fixed default of get_fan_rpm
C34_Default(fan_id) == IF fan_id = PyInt(1) THEN 2500 ELSE 2300

(* C34: when the hwmon file of fan 1 or 2 was detected and its read fails,   *)
(* get_fan_rpm issues the ACPI read; it returns the ACPI value when that     *)
(* read succeeds and the fixed default (2500, 2300) when it fails too, and   *)
(* never 0 for a read that failed.                                           *)
C34_FanRpmFallback ==
    (/\ last.kind = "call"
     /\ last.request.fn = "get_fan_rpm"
     /\ last.request.fan_id \in {PyInt(1), PyInt(2)}
     /\ last.request.hwmon = HwmonMiss)
        => /\ last.request.acpi.st = "ok" => Len(last.calls) = 1
           /\ last.request.acpi = [st |-> "ok", text |-> "0x37"] => last.ret = 55
           /\ last.request.acpi.st # "ok" => last.ret = C34_Default(last.request.fan_id)

(* C35: every call of _acpi_call_real returns the firmware's answer to the   *)
(* command that this call wrote (a call that wrote one), also when other     *)
(* workers call _acpi_call_real at the same time.                            *)
C35_AcpiReadsOwnResult ==
    (last.kind = "call" /\ last.request.fn = "_acpi_call_real" /\ Len(last.calls) = 1)
        => last.ret = AcpiResult(last.request.acpi)

\* the controller after a startup from config file f and two toggle_g_mode calls
\* run one after the other
C36_OneAfterTheOther(f) ==
    LET fresh == [World(IdleThread) EXCEPT
                      !.c = [current_mode |-> "BALANCED", g_mode_active |-> FALSE,
                             manual_mode |-> FALSE, current_fan_boosts |-> <<0, 0>>,
                             manual_fan_control |-> <<FALSE, FALSE>>,
                             pre_gmode_state |-> NoSnapshot],
                      !.cm.config_file = f, !.cm.backup_file = MissingFile]
        started == CallOn(fresh, LacFrame)
    IN  CallOn(CallOn(started, ToggleFrame), ToggleFrame).c

\* two toggle triggers were started and both have been processed
C36_TwoTogglesDone == Quiescent /\ nstarted = 2

(* C36: when two toggle_g_mode triggers (two requests, or a request and a    *)
(* key press) have been processed, in whatever interleaving, from a state    *)
(* with G-Mode off, the controller is in the state that running the two      *)
(* toggles one after the other leaves: G-Mode off, no snapshot, mode and fan *)
(* state those of the start.                                                 *)
C36_TogglesLinearizable ==
    C36_TwoTogglesDone =>
        /\ ~g_mode_active
        /\ pre_gmode_state = NoSnapshot
        /\ \E f \in ToggleFiles : C = C36_OneAfterTheOther(f)

(* C37: whenever no controller operation is in progress, the manual-control  *)
(* flag of each fan is true exactly when the recorded boost of that fan is   *)
(* greater than 0.                                                           *)
C37_ManualTracksBoost ==
    Quiescent => \A fan \in {1, 2} : manual_fan_control[fan] <=> current_fan_boosts[fan] > 0

\* src/g15_controller_commander.py, PowerMode: value[0] of each member
ClientModeLabel(m) ==
    CASE m = "QUIET" -> "Quiet"
      [] m = "BALANCED" -> "Balanced"
      [] m = "PERFORMANCE" -> "Performance"
      [] m = "CUSTOM" -> "Custom"

\* G15DaemonClient.set_power_mode: the request the client sends for mode m
ClientSetPowerMode(m) ==
    [action |-> PyStr("set_power_mode"), mode |-> PyStr(ClientModeLabel(m))]

\* G15DaemonClient._get_all_data with an empty cache: the data of a successful
\* response, the built-in defaults otherwise
ClientGetAllData(response) ==
    IF response.status = "success" THEN response.data
    ELSE [power |-> [current_mode |-> "Balanced", g_mode |-> FALSE]]

\* G15DaemonClient.get_power_mode: the member whose label the daemon sent, BALANCED
\* when no member has that label
ClientGetPowerMode(response) ==
    LET mode_name == ClientGetAllData(response).power.current_mode IN
    IF \E m \in PowerMode : ClientModeLabel(m) = mode_name
    THEN CHOOSE m \in PowerMode : ClientModeLabel(m) = mode_name
    ELSE "BALANCED"

(* C38: for every power mode m, the set_power_mode request the client builds *)
(* for m is answered with success and makes m the daemon's current mode, and *)
(* the client decodes the mode label of the daemon's get_all_data response   *)
(* as the daemon's current mode.                                             *)
C38_ClientDaemonLabelsAgree ==
    phase = "running" =>
        /\ \A m \in PowerMode :
               LET set == Handle(ClientSetPowerMode(m)) IN
               /\ set.t.resp.status = "success"
               /\ set.c.current_mode = m
        /\ ClientGetPowerMode(Handle([action |-> PyStr("get_all_data")]).t.resp) = current_mode

\* the auto_apply member of a config file, None when the file holds no config
C39_AutoApply(file) ==
    IF file.st = "json" /\ Loads(file.doc).kind = "dict"
    THEN Get(Loads(file.doc).v, "auto_apply", PyNone)
    ELSE PyNone

(* C39: in every state of the running daemon, a request or key press that    *)
(* makes the controller write the config file leaves a config file with      *)
(* auto_apply = true, whatever auto_apply the file held before.              *)
C39_AutoApplyForcedOn ==
    phase = "running" =>
        \A t \in C31_Triggers :
            LET start == World(t) IN
            C31_WriteCount(start) >= 1 =>
                C39_AutoApply(Run(start).cm.config_file) = PyBool(TRUE)

\* the daemon started on a config with auto_apply false (now the backup) and a
\* mutation has been persisted
C39_Witness ==
    /\ last.kind = "ipc"
    /\ last.request.action \in {PyStr("set_power_mode"), PyStr("set_fan_boost"),
                                PyStr("toggle_g_mode")}
    /\ C39_AutoApply(backup_file) = PyBool(FALSE)
    /\ C39_AutoApply(config_file) = PyBool(TRUE)

\* client_requests after handle_client has served a connection of address a on
\* which `data` arrived
C40_Recorded(a, data) ==
    Run(World(StartThread("client", data, "ok", HcFrame(a, data)))).requests

(* C40: with the requests of an address handled one at a time, the window of *)
(* the address never holds more than 51 timestamps, and handling one more    *)
(* connection records the request exactly when the pruned window holds at    *)
(* most 50 timestamps: a request without action field is recorded like one   *)
(* with it, a request over quota and a payload that is no JSON are not       *)
(* recorded.                                                                 *)
C40_RateWindowAccounting ==
    \A a \in Addresses :
        LET window == Get(client_requests, a, <<>>)
            kept == Pruned(window, now)
        IN  /\ Len(window) <= RateLimit + 1
            /\ \A request_data \in RateRequests :
                   Get(C40_Recorded(a, JsonPayload(request_data)), a, <<>>) =
                       IF Len(kept) <= RateLimit THEN Append(kept, now) ELSE kept
            /\ C40_Recorded(a, GarbagePayload) = client_requests

\* the window is full, a request without action is among the recorded ones and the
\* latest request was rejected for quota
C40_Witness ==
    /\ Len(Get(client_requests, "addr", <<>>)) = RateLimit + 1
    /\ last_validate.kind = "call"
    /\ ~last_validate.passed
    /\ last_validate.malformed = 1
====
